---- MODULE Spec2Model ----
(***************************************************************************)
(* Telemetry-to-alert pipeline of the fleet tracker.                       *)
(*                                                                         *)
(* RealTimeAlertService (rule evaluation, createAlert with its 30 minute   *)
(* duplicate check, speed-limit cache), RealTimeService (store, then       *)
(* checkGeofences) and the storing side of RealGPSService.                 *)
(*                                                                         *)
(* Units: time in seconds (the code computes in milliseconds), speed in    *)
(* hundredths of a mph (41.01 mph is 4101), coordinates in 0.00001      *)
(* degree, distances in millimetres.                                       *)
(***************************************************************************)
EXTENDS Integers, Sequences, FiniteSets, TLC

VARIABLES
  now,              \* wall clock: Date.now() and the database's now()
  alerts,           \* table alerts: sequence of rows, the id is the position
  broadcasts,       \* messages sent on channel 'alerts'
  calls,            \* createAlert invocations in flight, one per caller
  completed,        \* outcome of the createAlert invocations that returned
  alertRules,       \* RealTimeAlertService.alertRules: the rules of the organization
  speedLimitCache,  \* RealTimeAlertService.speedLimitCache
  lastCall,         \* the last rule evaluation: its event and what it handed to createAlert
  location_updates, \* table location_updates: sequence of rows
  geofences,        \* table geofences: the rows of the organization
  maintenance_records, \* table maintenance_records
  stream,           \* the samples vehicle v1 has produced so far, oldest first
  pipeline,         \* "tracking": RealTimeService; "monitor": RealTimeMonitor
  processing,       \* the handler runs in flight: what each has done and awaits
  trips,            \* table trips: sequence of rows, the id is the position
  notifications,    \* the sends sendNotifications has attempted, in order
  updateInterval,   \* RealTimeService.updateInterval: the timer, or NULL
  notification_preferences, \* table notification_preferences: sequence of rows
  wsConnection,     \* RealGPSService.wsConnection: <<socket>>, or <<>> for null
  sockets,          \* the WebSocket objects created so far, with their state
  timers,           \* the timers set and not yet fired or cleared
  stopped,          \* disconnect() or stopTracking() has returned
  subscribers,      \* RealTimeService.subscribers: subscription id to callback
  invocations       \* the callback invocations made by notifySubscribers

vars == <<now, alerts, broadcasts, calls, completed, alertRules, speedLimitCache,
          lastCall, location_updates, geofences, maintenance_records, stream,
          pipeline, processing, trips, notifications, updateInterval,
          notification_preferences, wsConnection, sockets, timers, stopped,
          subscribers, invocations>>

callVars == <<calls, completed>>
ruleVars == <<alertRules, speedLimitCache, lastCall>>
fleetVars ==
  <<location_updates, geofences, maintenance_records, stream, pipeline>>
lifecycleVars == <<wsConnection, sockets, timers, stopped, subscribers, invocations>>
serviceVars ==
  <<trips, notifications, updateInterval, notification_preferences, lifecycleVars>>

----------------------------------------------------------------------------
(* Bounds of the model *)

MaxCalls == 2
MaxTicks == 2
MaxSpeedTicks == 2

(* Program constants *)

DedupWindow == 1800

NULL == "null"

(* Two concurrent callers of createAlert. *)
Callers == {1, 2}

(* The clock advances by half a window or one second more, so that two     *)
(* instants less than, exactly and more than a window apart all occur.     *)
ClockSteps == {900, 901}

MaxTime == MaxTicks * 901

(* The candidates handed to createAlert in the duplicate-check runs: they   *)
(* differ pairwise in exactly one of the three columns of the lookup.       *)
Candidates ==
  { [organizationId |-> "org1", vehicleId |-> "v1", alertType |-> "speeding", severity |-> "low"],
    [organizationId |-> "org2", vehicleId |-> "v1", alertType |-> "speeding", severity |-> "low"],
    [organizationId |-> "org1", vehicleId |-> "v2", alertType |-> "speeding", severity |-> "low"],
    [organizationId |-> "org1", vehicleId |-> "v1", alertType |-> "geofence_entry", severity |-> "medium"] }

----------------------------------------------------------------------------
(* createAlert *)

(* The lookup key with the geofence of a geofence alert added to it. *)
SameKeyPerGeofence(row, alertData) ==
  /\ row.organization_id = alertData.organizationId
  /\ row.vehicle_id = alertData.vehicleId
  /\ row.alert_type = alertData.alertType
  /\ "geofenceName" \in DOMAIN alertData => row.metadata = <<alertData.geofenceName>>

SameKey(row, alertData) ==
  /\ row.organization_id = alertData.organizationId
  /\ row.vehicle_id = alertData.vehicleId
  /\ row.alert_type = alertData.alertType

(* new Date(Date.now() - 30 * 60 * 1000) *)
ThirtyMinutesAgo(t) == t - DedupWindow

(* The lookup with the window's lower end excluded. *)
ExistingAlertExclusive(table, alertData, thirtyMinutesAgo) ==
  \E i \in 1..Len(table) :
     /\ SameKey(table[i], alertData)
     /\ table[i].created_at > thirtyMinutesAgo

(* The lookup: rows of the key with created_at >= thirtyMinutesAgo; the    *)
(* result is non-empty iff such a row exists (limit 1).                    *)
ExistingAlert(table, alertData, thirtyMinutesAgo) ==
  \E i \in 1..Len(table) :
     /\ SameKey(table[i], alertData)
     /\ table[i].created_at >= thirtyMinutesAgo

(* The inserted row; created_at is the database default now(). Of the     *)
(* metadata the row keeps the geofence name of a geofence alert.           *)
AlertRow(alertData, t) ==
  [organization_id |-> alertData.organizationId,
   vehicle_id      |-> alertData.vehicleId,
   alert_type      |-> alertData.alertType,
   severity        |-> alertData.severity,
   metadata        |-> IF "geofenceName" \in DOMAIN alertData
                       THEN <<alertData.geofenceName>>
                       ELSE <<>>,
   created_at      |-> t]

InsertAlert(table, alertData, t) == Append(table, AlertRow(alertData, t))

EmptyCache == [k \in {} |-> NULL]

NoCall == [fn |-> NULL]

(* No vehicle, no geofence, no stored location. *)
NoFleet ==
  /\ location_updates = <<>>
  /\ geofences = <<>>
  /\ maintenance_records = <<>>
  /\ stream = <<>>
  /\ pipeline = NULL

(* No socket, no timer, no subscriber: the services as constructed. *)
NoLifecycle ==
  /\ wsConnection = <<>>
  /\ sockets = <<>>
  /\ timers = <<>>
  /\ stopped = FALSE
  /\ subscribers = <<>>
  /\ invocations = <<>>

IdleCall == [pc |-> "idle", alertData |-> NULL, thirtyMinutesAgo |-> 0, seen |-> 0]

InFlight(p) == calls[p].pc # "idle"

(* A caller (a rule of a polling tick, of any service instance) enters     *)
(* createAlert with a candidate.                                           *)
BeginCreateAlert(p, alertData) ==
  /\ calls[p].pc = "idle"
  /\ Len(completed) + Cardinality({q \in Callers : InFlight(q)}) < MaxCalls
  /\ calls' = [calls EXCEPT ![p] =
                 [pc |-> "check", alertData |-> alertData, thirtyMinutesAgo |-> 0,
                  seen |-> 0]]
  /\ UNCHANGED <<serviceVars, processing, now, alerts, broadcasts, completed, ruleVars, fleetVars>>

(* Lines 386-399: the lookup and the early return on a duplicate. *)
CheckDuplicate(p) ==
  /\ calls[p].pc = "check"
  /\ LET cutoff == ThirtyMinutesAgo(now)
         call   == calls[p]
     IN IF ExistingAlert(alerts, call.alertData, cutoff)
        THEN /\ calls' = [calls EXCEPT ![p] = IdleCall]
             /\ completed' = Append(completed,
                   [alertData |-> call.alertData, checkedAt |-> now,
                    seen |-> Len(alerts), outcome |-> "skipped"])
        ELSE /\ calls' = [calls EXCEPT ![p].pc = "insert",
                                       ![p].thirtyMinutesAgo = cutoff,
                                       ![p].seen = Len(alerts)]
             /\ UNCHANGED completed
  /\ UNCHANGED <<serviceVars, processing, now, alerts, broadcasts, ruleVars, fleetVars>>

(* Lines 402-427: the insert, then notifications and the broadcast; an     *)
(* insert error is thrown to the catch of line 429 and nothing is sent.    *)
InsertAndDispatch(p, ok) ==
  /\ calls[p].pc = "insert"
  /\ LET call == calls[p]
     IN IF ok
        THEN /\ alerts' = InsertAlert(alerts, call.alertData, now)
             /\ broadcasts' = broadcasts \cup {[id |-> Len(alerts) + 1]}
             /\ completed' = Append(completed,
                   [alertData |-> call.alertData,
                    checkedAt |-> call.thirtyMinutesAgo + DedupWindow,
                    seen |-> call.seen, outcome |-> "inserted"])
        ELSE /\ UNCHANGED <<serviceVars, processing, alerts, broadcasts>>
             /\ completed' = Append(completed,
                   [alertData |-> call.alertData,
                    checkedAt |-> call.thirtyMinutesAgo + DedupWindow,
                    seen |-> call.seen, outcome |-> "failed"])
  /\ calls' = [calls EXCEPT ![p] = IdleCall]
  /\ UNCHANGED <<serviceVars, processing, now, ruleVars, fleetVars>>

Tick(d) ==
  /\ now + d <= MaxTime
  /\ now' = now + d
  /\ UNCHANGED <<serviceVars, processing, alerts, broadcasts, calls, completed, ruleVars, fleetVars>>

Init ==
  /\ now = 0
  /\ alerts = <<>>
  /\ broadcasts = {}
  /\ calls = [p \in Callers |-> IdleCall]
  /\ completed = <<>>
  /\ alertRules = <<>>
  /\ speedLimitCache = EmptyCache
  /\ lastCall = NoCall
  /\ processing = <<>>
  /\ trips = <<>>
  /\ notifications = <<>>
  /\ updateInterval = NULL
  /\ notification_preferences = <<>>
  /\ NoLifecycle
  /\ NoFleet

(* Concurrent callers: overlapping polling ticks and service instances. *)
Next ==
  \/ \E p \in Callers, c \in Candidates : BeginCreateAlert(p, c)
  \/ \E p \in Callers : CheckDuplicate(p)
  \/ \E p \in Callers, ok \in BOOLEAN : InsertAndDispatch(p, ok)
  \/ \E d \in ClockSteps : Tick(d)

Spec == Init /\ [][Next]_vars

(* One call after the other: a call starts only when none is in flight. *)
BeginSequential(p, alertData) ==
  /\ \A q \in Callers : ~InFlight(q)
  /\ BeginCreateAlert(p, alertData)

NextSeq ==
  \/ \E p \in Callers, c \in Candidates : BeginSequential(p, c)
  \/ \E p \in Callers : CheckDuplicate(p)
  \/ \E p \in Callers, ok \in BOOLEAN : InsertAndDispatch(p, ok)
  \/ \E d \in ClockSteps : Tick(d)

SpecSeq == Init /\ [][NextSeq]_vars

----------------------------------------------------------------------------
(* createAlert run to completion by an awaiting caller *)

(* createAlert from its lookup to its return, with no other call in        *)
(* between: the table afterwards. ok: the database accepts the insert.     *)
CreateAlert(table, alertData, t, ok) ==
  IF ExistingAlert(table, alertData, ThirtyMinutesAgo(t))
  THEN table
  ELSE IF ok THEN InsertAlert(table, alertData, t) ELSE table

(* The candidates of one rule evaluation, each awaited in turn. *)
RECURSIVE CreateAlerts(_, _, _, _)
CreateAlerts(table, candidates, t, ok) ==
  IF candidates = <<>>
  THEN table
  ELSE CreateAlerts(CreateAlert(table, Head(candidates), t, ok),
                    Tail(candidates), t, ok)

(* The rows added by a run are broadcast after their insert. *)
Broadcast(sent, before, after) ==
  sent \cup {[id |-> i] : i \in Len(before) + 1 .. Len(after)}

(* rule.conditions.<name> || default: an absent and a zero value are both  *)
(* falsy and give the default.                                             *)
Condition(rule, name, default) ==
  IF name \in DOMAIN rule.conditions /\ rule.conditions[name] # 0
  THEN rule.conditions[name]
  ELSE default

NoConditions == [n \in {} |-> 0]

----------------------------------------------------------------------------
(* getSpeedLimit and checkSpeedingViolation *)

DefaultSpeedLimit == 3500
CacheFreshness == 3600
DefaultTolerance == 500
HighExcess == 2000
MediumExcess == 1000

(* toFixed(4) of a coordinate held in units of 0.00001 degree. *)
Round4(x) == IF x >= 0 THEN (x + 5) \div 10 ELSE -((5 - x) \div 10)

CacheKey(lat, lng) == <<Round4(lat), Round4(lng)>>

(* What the Overpass request gives: a network or JSON error, no element    *)
(* with a maxspeed tag, or a maxspeed whose digits parse to the number.    *)
LookupOutcomes ==
  { [kind |-> "error"], [kind |-> "empty"],
    [kind |-> "maxspeed", value |-> 0], [kind |-> "maxspeed", value |-> 30] }

(* parseInt(digits) || 35, in hundredths of a mph *)
ParsedLimit(outcome) ==
  IF outcome.kind = "maxspeed" /\ outcome.value # 0
  THEN outcome.value * 100
  ELSE DefaultSpeedLimit

(* The freshness test with the end of the hour included. *)
FreshInclusive(cache, key, t) ==
  key \in DOMAIN cache /\ t - cache[key].timestamp <= CacheFreshness

Fresh(cache, key, t) ==
  key \in DOMAIN cache /\ t - cache[key].timestamp < CacheFreshness

(* getSpeedLimit falling back on an expired entry when the lookup fails. *)
SpeedLimitStaleOnError(cache, lat, lng, t, outcome) ==
  LET key == CacheKey(lat, lng)
  IN IF key \in DOMAIN cache /\ (Fresh(cache, key, t) \/ outcome.kind = "error")
     THEN cache[key].limit
     ELSE IF outcome.kind = "error" THEN DefaultSpeedLimit
     ELSE ParsedLimit(outcome)

(* The limit getSpeedLimit returns. *)
SpeedLimit(cache, lat, lng, t, outcome) ==
  LET key == CacheKey(lat, lng)
  IN IF Fresh(cache, key, t) THEN cache[key].limit
     ELSE IF outcome.kind = "error" THEN DefaultSpeedLimit
     ELSE ParsedLimit(outcome)

(* The cache after the call: written only after a lookup that answered. *)
CacheAfter(cache, lat, lng, t, outcome) ==
  LET key == CacheKey(lat, lng)
  IN IF Fresh(cache, key, t) \/ outcome.kind = "error"
     THEN cache
     ELSE [k \in DOMAIN cache \cup {key} |->
             IF k = key THEN [limit |-> ParsedLimit(outcome), timestamp |-> t]
             ELSE cache[k]]

(* The rule with the tolerance taken as 6 mph when none is configured. *)
ToleranceSix(rule) == Condition(rule, "tolerance", DefaultTolerance + 100)

Tolerance(rule) == Condition(rule, "tolerance", DefaultTolerance)

(* The severity bands with their lower ends included. *)
SpeedingSeverityInclusive(speed, speedLimit) ==
  IF speed >= speedLimit + HighExcess THEN "high"
  ELSE IF speed >= speedLimit + MediumExcess THEN "medium"
  ELSE "low"

(* Lines 114-115 *)
SpeedingSeverity(speed, speedLimit) ==
  IF speed > speedLimit + HighExcess THEN "high"
  ELSE IF speed > speedLimit + MediumExcess THEN "medium"
  ELSE "low"

(* Lines 113-131: the candidates checkSpeedingViolation hands to createAlert *)
SpeedingCandidates(rule, data, speedLimit) ==
  IF data.speed > speedLimit + Tolerance(rule)
  THEN << [organizationId |-> rule.organizationId,
           vehicleId      |-> data.vehicleId,
           alertType      |-> "speeding",
           severity       |-> SpeedingSeverity(data.speed, speedLimit),
           currentSpeed   |-> data.speed,
           speedLimit     |-> speedLimit,
           violation      |-> data.speed - speedLimit] >>
  ELSE <<>>

(* Event speeds: around limit + 0, 5, 10, 20 mph for the limit 35, and the *)
(* reference speeds 41, 41.01, 42 and 56.                                  *)
Speeds == {3500, 3501, 4000, 4001, 4100, 4101, 4200, 4500, 4501, 5500, 5501, 5600}

(* Two positions of one road, 3 m apart, with the same cache key. *)
RoadPositions == {<<4712341, 812340>>, <<4712344, 812340>>}

ToleranceSettings ==
  { NoConditions, [tolerance |-> 0], [tolerance |-> 500], [tolerance |-> 1000] }

SpeedingRule(conditions) ==
  [id |-> "r1", organizationId |-> "org1", type |-> "speeding", conditions |-> conditions]

(* Half an hour at a time: a cache entry is fresh after one step and stale  *)
(* after two.                                                              *)
SpeedClockSteps == {DedupWindow}

SpeedMaxTime == MaxSpeedTicks * DedupWindow

(* The lookup is issued only when the cache has no fresh entry. *)
LookupsFor(pos) ==
  IF Fresh(speedLimitCache, CacheKey(pos[1], pos[2]), now)
  THEN {[kind |-> "unused"]}
  ELSE LookupOutcomes

(* The insert is issued only for a candidate that is no duplicate. *)
InsertsFor(candidates) ==
  IF \E i \in 1..Len(candidates) :
        ~ExistingAlert(alerts, candidates[i], ThirtyMinutesAgo(now))
  THEN BOOLEAN
  ELSE {TRUE}

CheckSpeedingViolation(rule, pos, speed, outcome) ==
  LET data       == [vehicleId |-> "v1", latitude |-> pos[1], longitude |-> pos[2],
                     speed |-> speed]
      speedLimit == SpeedLimit(speedLimitCache, pos[1], pos[2], now, outcome)
      candidates == SpeedingCandidates(rule, data, speedLimit)
  IN /\ rule.type = "speeding"
     /\ speedLimitCache' = CacheAfter(speedLimitCache, pos[1], pos[2], now, outcome)
     /\ \E ok \in InsertsFor(candidates) :
          /\ alerts' = CreateAlerts(alerts, candidates, now, ok)
          /\ broadcasts' = Broadcast(broadcasts, alerts, alerts')
     /\ lastCall' = [fn |-> "checkSpeedingViolation", data |-> data,
                     speedLimit |-> speedLimit, submitted |-> candidates]
     /\ UNCHANGED <<serviceVars, processing, now, alertRules, callVars, fleetVars>>

SpeedTick(d) ==
  /\ now + d <= SpeedMaxTime
  /\ now' = now + d
  /\ UNCHANGED <<serviceVars, processing, alerts, broadcasts, callVars, ruleVars, fleetVars>>

InitSpeed ==
  /\ now = 0
  /\ alerts = <<>>
  /\ broadcasts = {}
  /\ calls = [p \in Callers |-> IdleCall]
  /\ completed = <<>>
  /\ alertRules \in {<<SpeedingRule(c)>> : c \in ToleranceSettings}
  /\ speedLimitCache = EmptyCache
  /\ lastCall = NoCall
  /\ processing = <<>>
  /\ trips = <<>>
  /\ notifications = <<>>
  /\ updateInterval = NULL
  /\ notification_preferences = <<>>
  /\ NoLifecycle
  /\ NoFleet

NextSpeed ==
  \/ \E i \in 1..Len(alertRules), pos \in RoadPositions, speed \in Speeds :
        \E outcome \in LookupsFor(pos) :
           CheckSpeedingViolation(alertRules[i], pos, speed, outcome)
  \/ \E d \in SpeedClockSteps : SpeedTick(d)

SpecSpeed == InitSpeed /\ [][NextSpeed]_vars

----------------------------------------------------------------------------
(* getSpeedLimit and its cache *)

(* Two positions of one cache key and one of the next key. *)
LimitPositions == RoadPositions \cup {<<4712346, 812340>>}

(* Just under and just over half an hour, so that an entry is met 2 s      *)
(* before, at and 2 s after the end of its hour.                           *)
LimitClockSteps == {CacheFreshness \div 2 - 1, CacheFreshness \div 2 + 1}

LimitMaxTime == MaxSpeedTicks * (CacheFreshness \div 2 + 1)

CachedEntry(cache, key) == IF key \in DOMAIN cache THEN <<cache[key]>> ELSE <<>>

(* One call of getSpeedLimit(lat, lng); outcome is what the Overpass       *)
(* request gives when it is issued.                                        *)
GetSpeedLimit(pos, outcome) ==
  /\ lastCall' = [fn       |-> "getSpeedLimit",
                  key      |-> CacheKey(pos[1], pos[2]),
                  at       |-> now,
                  cached   |-> CachedEntry(speedLimitCache, CacheKey(pos[1], pos[2])),
                  lookup   |-> outcome,
                  returned |-> SpeedLimit(speedLimitCache, pos[1], pos[2], now, outcome)]
  /\ speedLimitCache' = CacheAfter(speedLimitCache, pos[1], pos[2], now, outcome)
  /\ UNCHANGED <<serviceVars, processing, now, alerts, broadcasts, alertRules, callVars, fleetVars>>

(* RealTimeService.getSpeedLimit: the answer of its request is not read. *)
TrackingSpeedLimit(outcome) ==
  IF outcome.kind = "error" THEN DefaultSpeedLimit ELSE DefaultSpeedLimit

TrackingGetSpeedLimit(outcome) ==
  /\ lastCall' = [fn       |-> "RealTimeService.getSpeedLimit",
                  lookup   |-> outcome,
                  returned |-> TrackingSpeedLimit(outcome)]
  /\ UNCHANGED <<serviceVars, processing, now, alerts, broadcasts, alertRules, speedLimitCache, callVars,
                 fleetVars>>

LimitTick(d) ==
  /\ now + d <= LimitMaxTime
  /\ now' = now + d
  /\ UNCHANGED <<serviceVars, processing, alerts, broadcasts, callVars, ruleVars, fleetVars>>

InitLimit ==
  /\ now = 0
  /\ alerts = <<>>
  /\ broadcasts = {}
  /\ calls = [p \in Callers |-> IdleCall]
  /\ completed = <<>>
  /\ alertRules = <<SpeedingRule(NoConditions)>>
  /\ speedLimitCache = EmptyCache
  /\ lastCall = NoCall
  /\ processing = <<>>
  /\ trips = <<>>
  /\ notifications = <<>>
  /\ updateInterval = NULL
  /\ notification_preferences = <<>>
  /\ NoLifecycle
  /\ NoFleet

NextLimit ==
  \/ \E pos \in LimitPositions : \E outcome \in LookupsFor(pos) :
        GetSpeedLimit(pos, outcome)
  \/ \E outcome \in LookupOutcomes : TrackingGetSpeedLimit(outcome)
  \/ \E d \in LimitClockSteps : LimitTick(d)

SpecLimit == InitLimit /\ [][NextLimit]_vars

----------------------------------------------------------------------------
(* Stored locations and geofence membership *)

MaxSamples == 4

EarthRadius == 6371000
PollInterval == 30

Abs(x) == IF x < 0 THEN -x ELSE x

(* Millimetres of great circle per 0.00001 degree: R * pi / 180 / 100000.  *)
MmPerUnit == ((EarthRadius \div 1000) * 17453) \div 100000

(* The haversine distance, in millimetres, of two points of one meridian   *)
(* or of two points of the equator, where it is R times the difference of  *)
(* the angles. Every position of the model lies on the equator.            *)
calculateDistance(lat1, lng1, lat2, lng2) ==
  CASE lng1 = lng2            -> Abs(lat2 - lat1) * MmPerUnit
    [] lat1 = 0 /\ lat2 = 0   -> Abs(lng2 - lng1) * MmPerUnit

(* Ray casting over the ring polygon.coordinates[0] of <<lng, lat>>        *)
(* vertices, the edge from vertex j to vertex i, j = i - 1 or n. The       *)
(* code's x < (xj - xi) * (y - yi) / (yj - yi) + xi is multiplied out by   *)
(* yj - yi, which the first conjunct makes non-zero.                       *)
isPointInPolygon(point, polygon) ==
  LET coordinates == polygon.coordinates[1]
      n == Len(coordinates)
      Crosses(i) ==
        LET j  == IF i = 1 THEN n ELSE i - 1
            xi == coordinates[i][1]
            yi == coordinates[i][2]
            xj == coordinates[j][1]
            yj == coordinates[j][2]
        IN /\ (yi > point.latitude) # (yj > point.latitude)
           /\ IF yj - yi > 0
              THEN (point.longitude - xi) * (yj - yi) < (xj - xi) * (point.latitude - yi)
              ELSE (point.longitude - xi) * (yj - yi) > (xj - xi) * (point.latitude - yi)
  IN Cardinality({i \in 1..n : Crosses(i)}) % 2 = 1

(* geofence.radius is in metres. *)
isPointInGeofence(point, geofence) ==
  IF geofence.fence_type = "circular"
  THEN calculateDistance(point.latitude, point.longitude,
                         geofence.center_latitude, geofence.center_longitude)
         <= geofence.radius * 1000
  ELSE IF geofence.fence_type = "polygon"
  THEN isPointInPolygon(point, geofence.polygon_coordinates)
  ELSE FALSE

(* from('location_updates').eq('vehicle_id', v).order('timestamp',         *)
(* descending).limit(n); rows of equal timestamp in insertion order.       *)
RecentLocations(table, vehicleId, limit) ==
  LET RECURSIVE Take(_, _)
      Take(S, n) ==
        IF S = {} \/ n = 0
        THEN <<>>
        ELSE LET m == CHOOSE i \in S :
                        \A j \in S : \/ table[j].timestamp < table[i].timestamp
                                     \/ (table[j].timestamp = table[i].timestamp /\ j >= i)
             IN <<table[m]>> \o Take(S \ {m}, n - 1)
  IN Take({i \in 1..Len(table) : table[i].vehicle_id = vehicleId}, limit)

LocationRow(data) ==
  [vehicle_id |-> data.vehicleId, latitude |-> data.latitude,
   longitude |-> data.longitude, speed |-> data.speed, timestamp |-> data.timestamp]

(* The loop body without the prevLocation.length > 1 test: a vehicle       *)
(* without a baseline counts as having been outside.                       *)
GeofenceTransitionNoBaseline(point, prevLocation, geofence) ==
  LET isInside  == isPointInGeofence(point, geofence)
      wasInside == IF Len(prevLocation) > 1
                   THEN isPointInGeofence(prevLocation[2], geofence)
                   ELSE FALSE
  IN IF isInside /\ ~wasInside /\ geofence.alert_on_entry THEN "entry"
     ELSE IF ~isInside /\ wasInside /\ geofence.alert_on_exit THEN "exit"
     ELSE "none"

(* The loop body without the alert_on_entry and alert_on_exit tests. *)
GeofenceTransitionUngated(point, prevLocation, geofence) ==
  IF Len(prevLocation) > 1
  THEN LET isInside  == isPointInGeofence(point, geofence)
           wasInside == isPointInGeofence(prevLocation[2], geofence)
       IN IF isInside /\ ~wasInside THEN "entry"
          ELSE IF ~isInside /\ wasInside THEN "exit"
          ELSE "none"
  ELSE "none"

(* What the loop body of checkGeofences / checkGeofenceViolation decides   *)
(* for one geofence: prevLocation is the result of the limit-2 query.      *)
GeofenceTransition(point, prevLocation, geofence) ==
  IF Len(prevLocation) > 1
  THEN LET isInside  == isPointInGeofence(point, geofence)
           wasInside == isPointInGeofence(prevLocation[2], geofence)
       IN IF isInside /\ ~wasInside /\ geofence.alert_on_entry THEN "entry"
          ELSE IF ~isInside /\ wasInside /\ geofence.alert_on_exit THEN "exit"
          ELSE "none"
  ELSE "none"

ActiveGeofences(table, organizationId) ==
  SelectSeq(table, LAMBDA g : g.organization_id = organizationId /\ g.active)

(* The alerts of one evaluation, in the order of the geofences. *)
RECURSIVE GeofenceCandidates(_, _, _, _)
GeofenceCandidates(organizationId, data, prevLocation, fences) ==
  IF fences = <<>>
  THEN <<>>
  ELSE LET kind == GeofenceTransition(data, prevLocation, Head(fences))
           rest == GeofenceCandidates(organizationId, data, prevLocation, Tail(fences))
       IN IF kind = "none"
          THEN rest
          ELSE << [organizationId |-> organizationId,
                   vehicleId      |-> data.vehicleId,
                   alertType      |-> IF kind = "entry" THEN "geofence_entry"
                                                        ELSE "geofence_exit",
                   severity       |-> "medium",
                   geofenceName   |-> Head(fences).name] >> \o rest

(* AlertService.createGeofenceAlert: the rows are inserted as they come. *)
RECURSIVE InsertAlerts(_, _, _)
InsertAlerts(table, candidates, t) ==
  IF candidates = <<>>
  THEN table
  ELSE InsertAlerts(InsertAlert(table, Head(candidates), t), Tail(candidates), t)

(* Positions on the equator, <<latitude, longitude>>: in the depot circle   *)
(* only, in the circle and the yard polygon, in the polygon only, in none. *)
GeoPositions == {<<0, 0>>, <<0, 200>>, <<0, 300>>, <<0, 600>>}

Depot(onEntry, onExit) ==
  [name |-> "depot", organization_id |-> "org1", active |-> TRUE,
   fence_type |-> "circular", center_latitude |-> 0, center_longitude |-> 0,
   radius |-> 250, polygon_coordinates |-> [coordinates |-> <<>>],
   alert_on_entry |-> onEntry, alert_on_exit |-> onExit]

Yard ==
  [name |-> "yard", organization_id |-> "org1", active |-> TRUE,
   fence_type |-> "polygon", center_latitude |-> 0, center_longitude |-> 0,
   radius |-> 0,
   polygon_coordinates |->
     [coordinates |->
        << << <<100, -100>>, <<500, -100>>, <<500, 100>>, <<100, 100>>, <<100, -100>> >> >>],
   alert_on_entry |-> TRUE, alert_on_exit |-> TRUE]

(* A geofence of another organization and a deactivated one. *)
ForeignFence == [Yard EXCEPT !.name = "foreign", !.organization_id = "org2"]
RetiredFence == [Depot(TRUE, TRUE) EXCEPT !.name = "retired", !.active = FALSE]

GeofenceRule ==
  [id |-> "r2", organizationId |-> "org1", type |-> "geofence", conditions |-> NoConditions]

(* A location of vehicle v2, stored before v1 reports. *)
OtherVehicleRow ==
  [vehicle_id |-> "v2", latitude |-> 0, longitude |-> 600, speed |-> 0, timestamp |-> 0]

LatestStored ==
  stream # <<>> /\
  \E i \in 1..Len(location_updates) :
     location_updates[i] = LocationRow(stream[Len(stream)])

LatestEvaluated ==
  stream # <<>> /\ "k" \in DOMAIN lastCall /\ lastCall.k = Len(stream)

(* Vehicle v1 reports a new sample, d seconds after the last; the sample   *)
(* before it has been stored by then.                                      *)
NewSample(pos, speed, d) ==
  /\ Len(stream) < MaxSamples
  /\ stream = <<>> \/ LatestStored
  /\ now' = now + d
  /\ stream' = Append(stream, [vehicleId |-> "v1", latitude |-> pos[1],
                               longitude |-> pos[2], speed |-> speed, timestamp |-> now'])
  /\ UNCHANGED <<serviceVars, processing, alerts, broadcasts, callVars, ruleVars, location_updates,
                 geofences, maintenance_records, pipeline>>

(* RealTimeService, lines 48-53 and 139-183: the tick stores the fetched   *)
(* location and then runs checkGeofences on it; createGeofenceAlert        *)
(* inserts and broadcasts every alert.                                     *)
StoreAndCheckGeofences ==
  /\ pipeline = "tracking"
  /\ stream # <<>> /\ ~LatestStored
  /\ LET location     == stream[Len(stream)]
         table        == Append(location_updates, LocationRow(location))
         prevLocation == RecentLocations(table, location.vehicleId, 2)
         candidates   == GeofenceCandidates("org1", location, prevLocation,
                                            ActiveGeofences(geofences, "org1"))
     IN /\ location_updates' = table
        /\ alerts' = InsertAlerts(alerts, candidates, now)
        /\ broadcasts' = broadcasts \cup
             {[type |-> candidates[i].alertType, vehicleId |-> location.vehicleId,
               timestamp |-> now] : i \in 1..Len(candidates)}
        /\ lastCall' = [fn |-> "checkGeofences", k |-> Len(stream), data |-> location,
                        submitted |-> candidates]
  /\ UNCHANGED <<serviceVars, processing, now, callVars, alertRules, speedLimitCache, geofences,
                 maintenance_records, stream, pipeline>>

(* RealGPSService.handleRealTimeUpdate: the WebSocket message of the       *)
(* latest sample is stored; processForAlerts is empty.                     *)
HandleRealTimeUpdate ==
  /\ pipeline = "monitor"
  /\ stream # <<>> /\ ~LatestStored
  /\ location_updates' = Append(location_updates, LocationRow(stream[Len(stream)]))
  /\ UNCHANGED <<serviceVars, processing, now, alerts, broadcasts, callVars, ruleVars, geofences,
                 maintenance_records, stream, pipeline>>

(* RealTimeAlertService.checkGeofenceViolation for the event the poll of   *)
(* RealTimeMonitor fetched: the latest sample, stored already or not.      *)
CheckGeofenceViolation(rule) ==
  /\ pipeline = "monitor"
  /\ rule.type = "geofence"
  /\ stream # <<>> /\ ~LatestEvaluated
  /\ LET data         == stream[Len(stream)]
         prevLocation == RecentLocations(location_updates, data.vehicleId, 2)
         candidates   == GeofenceCandidates(rule.organizationId, data, prevLocation,
                           ActiveGeofences(geofences, rule.organizationId))
     IN /\ \E ok \in InsertsFor(candidates) :
             /\ alerts' = CreateAlerts(alerts, candidates, now, ok)
             /\ broadcasts' = Broadcast(broadcasts, alerts, alerts')
        /\ lastCall' = [fn |-> "checkGeofenceViolation", k |-> Len(stream),
                        data |-> data, submitted |-> candidates]
  /\ UNCHANGED <<serviceVars, processing, now, callVars, alertRules, speedLimitCache, fleetVars>>

InitGeo ==
  /\ now = 0
  /\ alerts = <<>>
  /\ broadcasts = {}
  /\ calls = [p \in Callers |-> IdleCall]
  /\ completed = <<>>
  /\ pipeline \in {"tracking", "monitor"}
  /\ alertRules = IF pipeline = "monitor" THEN <<GeofenceRule>> ELSE <<>>
  /\ speedLimitCache = EmptyCache
  /\ lastCall = NoCall
  /\ processing = <<>>
  /\ trips = <<>>
  /\ notifications = <<>>
  /\ updateInterval = NULL
  /\ notification_preferences = <<>>
  /\ NoLifecycle
  /\ location_updates = <<OtherVehicleRow>>
  /\ \E onEntry, onExit \in BOOLEAN :
        geofences = <<Depot(onEntry, onExit), ForeignFence, Yard, RetiredFence>>
  /\ maintenance_records = <<>>
  /\ stream = <<>>

NextGeo ==
  \/ \E pos \in GeoPositions : NewSample(pos, 0, PollInterval)
  \/ StoreAndCheckGeofences
  \/ HandleRealTimeUpdate
  \/ \E i \in 1..Len(alertRules) : CheckGeofenceViolation(alertRules[i])

SpecGeo == InitGeo /\ [][NextGeo]_vars

----------------------------------------------------------------------------
(* Harsh driving *)

DefaultHarshAcceleration == 800
DefaultHarshBraking == -800

(* speedDiff / timeDiff > threshold, the quotient not formed: for a        *)
(* timeDiff of 0 the quotient is +Infinity, -Infinity or NaN, and every    *)
(* comparison with NaN is false.                                           *)
AccelerationAbove(speedDiff, timeDiff, threshold) ==
  IF timeDiff > 0 THEN speedDiff > threshold * timeDiff
  ELSE IF timeDiff = 0 THEN speedDiff > 0
  ELSE speedDiff < threshold * timeDiff

AccelerationBelow(speedDiff, timeDiff, threshold) ==
  IF timeDiff > 0 THEN speedDiff < threshold * timeDiff
  ELSE IF timeDiff = 0 THEN speedDiff < 0
  ELSE speedDiff > threshold * timeDiff

(* The row checkHarshDriving takes for the previous sample: none when the  *)
(* limit-3 query returned fewer than two rows.                             *)
PreviousSample(recentLocations) ==
  IF Len(recentLocations) < 2 THEN <<>> ELSE <<recentLocations[1]>>

HarshCandidates(rule, data, recentLocations) ==
  IF PreviousSample(recentLocations) = <<>>
  THEN <<>>
  ELSE LET previous  == PreviousSample(recentLocations)[1]
           timeDiff  == data.timestamp - previous.timestamp
           speedDiff == data.speed - previous.speed
           harshAccelThreshold ==
             Condition(rule, "harshAcceleration", DefaultHarshAcceleration)
           harshBrakeThreshold ==
             Condition(rule, "harshBraking", DefaultHarshBraking)
           Candidate(type) ==
             << [organizationId |-> rule.organizationId,
                 vehicleId      |-> data.vehicleId,
                 alertType      |-> type,
                 severity       |-> "medium"] >>
       IN IF AccelerationAbove(speedDiff, timeDiff, harshAccelThreshold)
          THEN Candidate("harsh_acceleration")
          ELSE IF AccelerationBelow(speedDiff, timeDiff, harshBrakeThreshold)
          THEN Candidate("harsh_braking")
          ELSE <<>>

HarshSpeeds == {1000, 2400, 4000}
SampleGaps == {2, 10}

HarshSettings ==
  { NoConditions,
    [n \in {"harshAcceleration", "harshBraking"} |->
       IF n = "harshAcceleration" THEN 0 ELSE 0],
    [n \in {"harshAcceleration", "harshBraking"} |->
       IF n = "harshAcceleration" THEN 200 ELSE -200],
    [n \in {"harshAcceleration"} |-> 1600] }

HarshRule(conditions) ==
  [id |-> "r3", organizationId |-> "org1", type |-> "harsh_driving",
   conditions |-> conditions]

(* RealTimeAlertService.checkHarshDriving for the event the poll fetched. *)
CheckHarshDriving(rule) ==
  /\ pipeline = "monitor"
  /\ rule.type = "harsh_driving"
  /\ stream # <<>> /\ ~LatestEvaluated
  /\ LET data            == stream[Len(stream)]
         recentLocations == RecentLocations(location_updates, data.vehicleId, 3)
         candidates      == HarshCandidates(rule, data, recentLocations)
     IN /\ \E ok \in InsertsFor(candidates) :
             /\ alerts' = CreateAlerts(alerts, candidates, now, ok)
             /\ broadcasts' = Broadcast(broadcasts, alerts, alerts')
        /\ lastCall' = [fn |-> "checkHarshDriving", k |-> Len(stream), data |-> data,
                        previous |-> PreviousSample(recentLocations),
                        submitted |-> candidates]
  /\ UNCHANGED <<serviceVars, processing, now, callVars, alertRules, speedLimitCache, fleetVars>>

InitHarsh ==
  /\ now = 0
  /\ alerts = <<>>
  /\ broadcasts = {}
  /\ calls = [p \in Callers |-> IdleCall]
  /\ completed = <<>>
  /\ pipeline = "monitor"
  /\ alertRules \in {<<HarshRule(c)>> : c \in HarshSettings}
  /\ speedLimitCache = EmptyCache
  /\ lastCall = NoCall
  /\ processing = <<>>
  /\ trips = <<>>
  /\ notifications = <<>>
  /\ updateInterval = NULL
  /\ notification_preferences = <<>>
  /\ NoLifecycle
  /\ location_updates = <<OtherVehicleRow>>
  /\ geofences = <<>>
  /\ maintenance_records = <<>>
  /\ stream = <<>>

NextHarsh ==
  \/ \E speed \in HarshSpeeds, d \in SampleGaps : NewSample(<<0, 0>>, speed, d)
  \/ HandleRealTimeUpdate
  \/ \E i \in 1..Len(alertRules) : CheckHarshDriving(alertRules[i])

SpecHarsh == InitHarsh /\ [][NextHarsh]_vars

----------------------------------------------------------------------------
(* Idle time *)

IdleSpeed == 500
DefaultIdleThreshold == 15
SecondsPerMinute == 60

(* from('location_updates').eq('vehicle_id', v).gt('speed', 5), newest    *)
(* first, limit 1.                                                         *)
IdleStart(table, vehicleId) ==
  RecentLocations(SelectSeq(table, LAMBDA r : r.speed > IdleSpeed), vehicleId, 1)

(* idleMinutes > idleThreshold with the times in seconds. *)
IdleCandidates(rule, data, table) ==
  IF data.speed > IdleSpeed \/ data.engineStatus # "idle"
  THEN <<>>
  ELSE LET idleStart     == IdleStart(table, data.vehicleId)
           idleThreshold == Condition(rule, "idleThreshold", DefaultIdleThreshold)
       IN IF /\ Len(idleStart) > 0
             /\ data.timestamp - idleStart[1].timestamp > idleThreshold * SecondsPerMinute
          THEN << [organizationId |-> rule.organizationId,
                   vehicleId      |-> data.vehicleId,
                   alertType      |-> "excessive_idle",
                   severity       |-> "low"] >>
          ELSE <<>>

IdleSpeeds == {500, 501}
EngineStatuses == {"idle", "on"}
IdleGaps == {450, 451}

IdleSettings ==
  { NoConditions,
    [n \in {"idleThreshold"} |-> 0],
    [n \in {"idleThreshold"} |-> 8] }

IdleRule(conditions) ==
  [id |-> "r4", organizationId |-> "org1", type |-> "idle_time", conditions |-> conditions]

(* Vehicle v1 reports the event data, d seconds after its last; the event  *)
(* before it has been stored by then.                                      *)
NewEvent(data, d) ==
  /\ Len(stream) < MaxSamples
  /\ stream = <<>> \/ LatestStored
  /\ now' = now + d
  /\ stream' = Append(stream, [data EXCEPT !.timestamp = now'])
  /\ UNCHANGED <<serviceVars, processing, alerts, broadcasts, callVars, ruleVars, location_updates,
                 geofences, maintenance_records, pipeline>>

IdleEvent(speed, engineStatus) ==
  [vehicleId |-> "v1", latitude |-> 0, longitude |-> 0, speed |-> speed,
   timestamp |-> 0, engineStatus |-> engineStatus]

(* RealTimeAlertService.checkIdleTime for the event the poll fetched. *)
CheckIdleTime(rule) ==
  /\ pipeline = "monitor"
  /\ rule.type = "idle_time"
  /\ stream # <<>> /\ ~LatestEvaluated
  /\ LET data       == stream[Len(stream)]
         candidates == IdleCandidates(rule, data, location_updates)
     IN /\ \E ok \in InsertsFor(candidates) :
             /\ alerts' = CreateAlerts(alerts, candidates, now, ok)
             /\ broadcasts' = Broadcast(broadcasts, alerts, alerts')
        /\ lastCall' = [fn |-> "checkIdleTime", k |-> Len(stream), data |-> data,
                        submitted |-> candidates]
  /\ UNCHANGED <<serviceVars, processing, now, callVars, alertRules, speedLimitCache, fleetVars>>

InitIdle ==
  /\ now = 0
  /\ alerts = <<>>
  /\ broadcasts = {}
  /\ calls = [p \in Callers |-> IdleCall]
  /\ completed = <<>>
  /\ pipeline = "monitor"
  /\ alertRules \in {<<IdleRule(c)>> : c \in IdleSettings}
  /\ speedLimitCache = EmptyCache
  /\ lastCall = NoCall
  /\ processing = <<>>
  /\ trips = <<>>
  /\ notifications = <<>>
  /\ updateInterval = NULL
  /\ notification_preferences = <<>>
  /\ NoLifecycle
  /\ location_updates = <<[OtherVehicleRow EXCEPT !.speed = 3000]>>
  /\ geofences = <<>>
  /\ maintenance_records = <<>>
  /\ stream = <<>>

NextIdle ==
  \/ \E speed \in IdleSpeeds, engineStatus \in EngineStatuses, d \in IdleGaps :
        NewEvent(IdleEvent(speed, engineStatus), d)
  \/ HandleRealTimeUpdate
  \/ \E i \in 1..Len(alertRules) : CheckIdleTime(alertRules[i])

SpecIdle == InitIdle /\ [][NextIdle]_vars

----------------------------------------------------------------------------
(* Device offline *)

MaxPolls == 12

DefaultOfflineThreshold == 5

(* timeSinceUpdate > offlineThreshold with the times in seconds; t is      *)
(* Date.now() at the evaluation.                                           *)
OfflineCandidates(rule, data, t) ==
  LET offlineThreshold == Condition(rule, "offlineThreshold", DefaultOfflineThreshold)
  IN IF t - data.timestamp > offlineThreshold * SecondsPerMinute
     THEN << [organizationId |-> rule.organizationId,
              vehicleId      |-> data.vehicleId,
              alertType      |-> "device_offline",
              severity       |-> "high"] >>
     ELSE <<>>

OfflineSettings ==
  { NoConditions,
    [n \in {"offlineThreshold"} |-> 0],
    [n \in {"offlineThreshold"} |-> 2] }

OfflineRule(conditions) ==
  [id |-> "r5", organizationId |-> "org1", type |-> "device_offline",
   conditions |-> conditions]

(* What fetchVehicleData returns for the devices of the poll: the last     *)
(* sample the provider holds for v1, nothing for a device that has not     *)
(* reported, and an exception when the provider's answer is not ok.        *)
FetchOutcomes == {"ok", "error"}

FetchVehicleData(outcome) ==
  IF outcome = "ok" /\ stream # <<>> THEN <<stream[Len(stream)]>> ELSE <<>>

(* The device of v1 reports a sample to the provider. *)
DeviceSample ==
  /\ Len(stream) < MaxSamples
  /\ IF stream = <<>> THEN TRUE ELSE stream[Len(stream)].timestamp < now
  /\ stream' = Append(stream, [IdleEvent(0, "off") EXCEPT !.timestamp = now])
  /\ UNCHANGED <<serviceVars, processing, now, alerts, broadcasts, callVars, ruleVars, location_updates,
                 geofences, maintenance_records, pipeline>>

(* One run of the interval callback of RealTimeMonitor, 30 s after the     *)
(* last: fetchVehicleData, then processVehicleData for every update, which *)
(* for a device_offline rule is checkDeviceOffline.                        *)
OfflinePoll(rule, outcome) ==
  /\ rule.type = "device_offline"
  /\ now < MaxPolls * PollInterval
  /\ now' = now + PollInterval
  /\ LET vehicleUpdates == FetchVehicleData(outcome)
         candidates     == IF vehicleUpdates = <<>>
                           THEN <<>>
                           ELSE OfflineCandidates(rule, vehicleUpdates[1], now')
     IN /\ \E ok \in IF candidates = <<>> THEN {TRUE} ELSE BOOLEAN :
             /\ alerts' = CreateAlerts(alerts, candidates, now', ok)
             /\ broadcasts' = Broadcast(broadcasts, alerts, alerts')
        /\ lastCall' = [fn |-> "checkDeviceOffline", k |-> Len(stream), at |-> now',
                        vehicleUpdates |-> vehicleUpdates, submitted |-> candidates]
  /\ UNCHANGED <<serviceVars, processing, callVars, alertRules, speedLimitCache, fleetVars>>

InitOffline ==
  /\ now = 0
  /\ alerts = <<>>
  /\ broadcasts = {}
  /\ calls = [p \in Callers |-> IdleCall]
  /\ completed = <<>>
  /\ pipeline = "monitor"
  /\ alertRules \in {<<OfflineRule(c)>> : c \in OfflineSettings}
  /\ speedLimitCache = EmptyCache
  /\ lastCall = NoCall
  /\ processing = <<>>
  /\ trips = <<>>
  /\ notifications = <<>>
  /\ updateInterval = NULL
  /\ notification_preferences = <<>>
  /\ NoLifecycle
  /\ location_updates = <<>>
  /\ geofences = <<>>
  /\ maintenance_records = <<>>
  /\ stream = <<>>

NextOffline ==
  \/ DeviceSample
  \/ \E i \in 1..Len(alertRules), outcome \in FetchOutcomes :
        OfflinePoll(alertRules[i], outcome)

SpecOffline == InitOffline /\ [][NextOffline]_vars

----------------------------------------------------------------------------
(* Fuel theft *)

MaxFuelEvents == 2

FuelDropLimit == 20
FuelSpeed == 500
FuelWindow == 30
FuelQueryLimit == 5

(* An optional number of the event: <<>> when the field is undefined. *)
Absent == <<>>
Present(x) == <<x>>

(* !x for an optional number: undefined and 0 are falsy. *)
Falsy(x) == IF x = Absent THEN TRUE ELSE x[1] = 0

(* .not('fuel_level', 'is', null): neither storeRealTimeData nor           *)
(* storeLocationUpdates writes a fuel_level, so only rows of another       *)
(* writer pass.                                                            *)
FuelRows(table) == SelectSeq(table, LAMBDA r : "fuel_level" \in DOMAIN r)

FuelCandidates(rule, data, table) ==
  IF Falsy(data.fuelLevel)
  THEN <<>>
  ELSE LET recentFuel == RecentLocations(FuelRows(table), data.vehicleId, FuelQueryLimit)
       IN IF Len(recentFuel) < 2
          THEN <<>>
          ELSE LET fuelDrop == recentFuel[1].fuel_level - data.fuelLevel[1]
                   timeDiff == data.timestamp - recentFuel[1].timestamp
               IN IF /\ fuelDrop > FuelDropLimit
                     /\ data.speed < FuelSpeed
                     /\ timeDiff < FuelWindow * SecondsPerMinute
                  THEN << [organizationId |-> rule.organizationId,
                           vehicleId      |-> data.vehicleId,
                           alertType      |-> "fuel_theft",
                           severity       |-> "critical"] >>
                  ELSE <<>>

FuelRow(vehicleId, level, t) ==
  [vehicle_id |-> vehicleId, latitude |-> 0, longitude |-> 0, speed |-> 0,
   timestamp |-> t, fuel_level |-> level]

(* The rows with a fuel_level the table holds when the service starts. *)
FuelHistories ==
  { <<FuelRow("v2", 100, -60)>>,
    <<FuelRow("v2", 100, -60), FuelRow("v1", 80, -600)>>,
    <<FuelRow("v1", 90, -1200), FuelRow("v2", 100, -60), FuelRow("v1", 80, -600)>> }

FuelLevels == {Absent, Present(0), Present(59), Present(60), Present(80)}
FuelSpeeds == {499, 500}
FuelGaps == {600, 1200}

FuelRule ==
  [id |-> "r6", organizationId |-> "org1", type |-> "fuel_theft",
   conditions |-> NoConditions]

FuelEvent(speed, fuelLevel) ==
  [vehicleId |-> "v1", latitude |-> 0, longitude |-> 0, speed |-> speed,
   timestamp |-> 0, engineStatus |-> "off", fuelLevel |-> fuelLevel]

(* RealTimeAlertService.checkFuelTheft for the event the poll fetched. *)
CheckFuelTheft(rule) ==
  /\ pipeline = "monitor"
  /\ rule.type = "fuel_theft"
  /\ stream # <<>> /\ ~LatestEvaluated
  /\ LET data       == stream[Len(stream)]
         candidates == FuelCandidates(rule, data, location_updates)
     IN /\ \E ok \in InsertsFor(candidates) :
             /\ alerts' = CreateAlerts(alerts, candidates, now, ok)
             /\ broadcasts' = Broadcast(broadcasts, alerts, alerts')
        /\ lastCall' = [fn |-> "checkFuelTheft", k |-> Len(stream), data |-> data,
                        submitted |-> candidates]
  /\ UNCHANGED <<serviceVars, processing, now, callVars, alertRules, speedLimitCache, fleetVars>>

InitFuel ==
  /\ now = 0
  /\ alerts = <<>>
  /\ broadcasts = {}
  /\ calls = [p \in Callers |-> IdleCall]
  /\ completed = <<>>
  /\ pipeline = "monitor"
  /\ alertRules = <<FuelRule>>
  /\ speedLimitCache = EmptyCache
  /\ lastCall = NoCall
  /\ processing = <<>>
  /\ trips = <<>>
  /\ notifications = <<>>
  /\ updateInterval = NULL
  /\ notification_preferences = <<>>
  /\ NoLifecycle
  /\ location_updates \in FuelHistories
  /\ geofences = <<>>
  /\ maintenance_records = <<>>
  /\ stream = <<>>

NextFuel ==
  \/ \E speed \in FuelSpeeds, fuelLevel \in FuelLevels, d \in FuelGaps :
        Len(stream) < MaxFuelEvents /\ NewEvent(FuelEvent(speed, fuelLevel), d)
  \/ HandleRealTimeUpdate
  \/ \E i \in 1..Len(alertRules) : CheckFuelTheft(alertRules[i])

SpecFuel == InitFuel /\ [][NextFuel]_vars

----------------------------------------------------------------------------
(* Maintenance due *)

ServiceSoon == 500
ServiceNow == 100

(* from('maintenance_records').eq('vehicle_id', v).eq('completed', false)  *)
(* .not('next_service_mileage', 'is', null).                               *)
OpenRecords(table, vehicleId) ==
  SelectSeq(table, LAMBDA r : /\ r.vehicle_id = vehicleId
                              /\ ~r.completed
                              /\ r.next_service_mileage # Absent)

MaintenanceSeverity(mileageUntilService) ==
  IF mileageUntilService <= ServiceNow THEN "high" ELSE "medium"

(* The loop over the records, for an odometer that is a number. *)
RECURSIVE RecordCandidates(_, _, _)
RecordCandidates(rule, data, records) ==
  IF records = <<>>
  THEN <<>>
  ELSE LET record == Head(records)
           mileageUntilService == record.next_service_mileage[1] - data.odometer[1]
           rest == RecordCandidates(rule, data, Tail(records))
       IN IF mileageUntilService <= ServiceSoon
          THEN << [organizationId  |-> rule.organizationId,
                   vehicleId       |-> data.vehicleId,
                   alertType       |-> "maintenance_due",
                   severity        |-> MaintenanceSeverity(mileageUntilService),
                   maintenanceType |-> record.maintenance_type] >> \o rest
          ELSE rest

MaintenanceCandidates(rule, data, table) ==
  IF Falsy(data.odometer)
  THEN <<>>
  ELSE RecordCandidates(rule, data, OpenRecords(table, data.vehicleId))

MaintenanceRecord(vehicleId, type, target, done) ==
  [vehicle_id |-> vehicleId, maintenance_type |-> type,
   next_service_mileage |-> target, completed |-> done]

(* A vehicle in service with two open records, a completed one and one     *)
(* without a target; a new vehicle with its first service at 400 miles.    *)
RecordSets ==
  { << MaintenanceRecord("v1", "oil_change", Present(10000), FALSE),
       MaintenanceRecord("v1", "inspection", Present(10050), TRUE),
       MaintenanceRecord("v2", "tire_rotation", Present(10000), FALSE),
       MaintenanceRecord("v1", "brake_service", Present(10400), FALSE),
       MaintenanceRecord("v1", "other", Absent, FALSE) >>,
    << MaintenanceRecord("v1", "oil_change", Present(400), FALSE) >> }

Odometers ==
  {Absent, Present(0), Present(9499), Present(9500), Present(9899), Present(9900),
   Present(12000)}

MaintenanceRule ==
  [id |-> "r7", organizationId |-> "org1", type |-> "maintenance",
   conditions |-> NoConditions]

MaintenanceEvent(odometer) ==
  [vehicleId |-> "v1", latitude |-> 0, longitude |-> 0, speed |-> 0,
   timestamp |-> 0, engineStatus |-> "on", odometer |-> odometer]

(* RealTimeAlertService.checkMaintenanceAlerts for the event the poll      *)
(* fetched; every candidate goes through createAlert in turn.              *)
CheckMaintenanceAlerts(rule) ==
  /\ pipeline = "monitor"
  /\ rule.type = "maintenance"
  /\ stream # <<>> /\ ~LatestEvaluated
  /\ LET data       == stream[Len(stream)]
         candidates == MaintenanceCandidates(rule, data, maintenance_records)
     IN \E ok \in InsertsFor(candidates) :
           /\ alerts' = CreateAlerts(alerts, candidates, now, ok)
           /\ broadcasts' = Broadcast(broadcasts, alerts, alerts')
           /\ lastCall' = [fn |-> "checkMaintenanceAlerts", k |-> Len(stream),
                           data |-> data, submitted |-> candidates, inserted |-> ok]
  /\ UNCHANGED <<serviceVars, processing, now, callVars, alertRules, speedLimitCache, fleetVars>>

InitMaintenance ==
  /\ now = 0
  /\ alerts = <<>>
  /\ broadcasts = {}
  /\ calls = [p \in Callers |-> IdleCall]
  /\ completed = <<>>
  /\ pipeline = "monitor"
  /\ alertRules = <<MaintenanceRule>>
  /\ speedLimitCache = EmptyCache
  /\ lastCall = NoCall
  /\ processing = <<>>
  /\ trips = <<>>
  /\ notifications = <<>>
  /\ updateInterval = NULL
  /\ notification_preferences = <<>>
  /\ NoLifecycle
  /\ location_updates = <<>>
  /\ geofences = <<>>
  /\ maintenance_records \in RecordSets
  /\ stream = <<>>

NextMaintenance ==
  \/ \E odometer \in Odometers : NewEvent(MaintenanceEvent(odometer), PollInterval)
  \/ HandleRealTimeUpdate
  \/ \E i \in 1..Len(alertRules) : CheckMaintenanceAlerts(alertRules[i])

SpecMaintenance == InitMaintenance /\ [][NextMaintenance]_vars

----------------------------------------------------------------------------
(* processVehicleData: the rules of one event, the events of one poll *)

(* The updates one poll fetches. *)
EventsPerPoll == 2

(* The rules loaded for the organization: each evaluation awaits a call    *)
(* outside the process (the speed-limit lookup, a query, the insert and    *)
(* the notifications of an alert).                                         *)
LoadedRules ==
  << SpeedingRule(NoConditions), GeofenceRule, IdleRule(NoConditions) >>

(* What an awaited call can end in once it answers: a value, or an         *)
(* exception the callee did not catch.                                     *)
CallOutcomes == {"returns", "throws"}

(* evaluateRule without its try and catch: the exception ends the loop of  *)
(* processVehicleData, whose catch logs it.                                *)
AfterRuleUncaught(i, n, outcome) ==
  IF outcome = "throws" THEN n + 1 ELSE i + 1

(* The index of the rule the loop of processVehicleData goes on with after *)
(* rule i of n: evaluateRule catches what the evaluation throws.           *)
AfterRule(i, n, outcome) ==
  IF outcome = "throws" THEN i + 1 ELSE i + 1

NewRun(rules) ==
  [k |-> 1, i |-> 1,
   pc |-> IF rules = <<>> THEN "done" ELSE "evaluate",
   evaluated |-> [e \in 1..EventsPerPoll |-> 0],
   threw |-> FALSE]

(* The interval callback of RealTimeMonitor fires: the updates are         *)
(* fetched and the loop over them starts, whatever older runs still do.    *)
StartPoll ==
  /\ Len(processing) < MaxTicks
  /\ now' = now + PollInterval
  /\ processing' = Append(processing, NewRun(alertRules))
  /\ UNCHANGED <<serviceVars, alerts, broadcasts, callVars, ruleVars, fleetVars>>

(* evaluateRule(rule, data) of run r reaches its awaited call. *)
EvaluateRule(r) ==
  /\ processing[r].pc = "evaluate"
  /\ processing' = [processing EXCEPT ![r].pc = "awaiting"]
  /\ UNCHANGED <<serviceVars, now, alerts, broadcasts, callVars, ruleVars, fleetVars>>

(* The call run r awaits answers; the loops over the rules and over the    *)
(* updates go on.                                                          *)
CallAnswers(r, outcome) ==
  /\ processing[r].pc = "awaiting"
  /\ LET run  == processing[r]
         n    == Len(alertRules)
         next == AfterRule(run.i, n, outcome)
         last == next > n /\ run.k = EventsPerPoll
     IN processing' =
          [processing EXCEPT
             ![r] = [k  |-> IF next > n /\ ~last THEN run.k + 1 ELSE run.k,
                     i  |-> IF next > n /\ ~last THEN 1 ELSE next,
                     pc |-> IF last THEN "done" ELSE "evaluate",
                     evaluated |-> [run.evaluated EXCEPT ![run.k] = @ + 1],
                     threw |-> run.threw \/ outcome = "throws"]]
  /\ UNCHANGED <<serviceVars, now, alerts, broadcasts, callVars, ruleVars, fleetVars>>

InitProcess ==
  /\ now = 0
  /\ alerts = <<>>
  /\ broadcasts = {}
  /\ calls = [p \in Callers |-> IdleCall]
  /\ completed = <<>>
  /\ alertRules = LoadedRules
  /\ speedLimitCache = EmptyCache
  /\ lastCall = NoCall
  /\ processing = <<>>
  /\ trips = <<>>
  /\ notifications = <<>>
  /\ updateInterval = NULL
  /\ notification_preferences = <<>>
  /\ NoLifecycle
  /\ NoFleet

NextProcess ==
  \/ StartPoll
  \/ \E r \in 1..Len(processing) : EvaluateRule(r)
  \/ \E r \in 1..Len(processing), outcome \in CallOutcomes : CallAnswers(r, outcome)

SpecProcess == InitProcess /\ [][NextProcess]_vars

(* The process takes every step it can; nothing makes a call outside it    *)
(* answer.                                                                 *)
SpecProcessLive ==
  /\ SpecProcess
  /\ WF_vars(StartPoll)
  /\ WF_vars(\E r \in 1..Len(processing) : EvaluateRule(r))

----------------------------------------------------------------------------
(* The stages of an event: polling ticks and WebSocket messages *)

(* What the interval callback of RealTimeService awaits for a location,    *)
(* in turn: storeLocationUpdates, then in processLocationForAlerts the     *)
(* vehicle query, checkSpeeding, checkGeofences and updateTripData.        *)
TickStages == <<"store", "vehicle", "speeding", "geofences", "trip">>

(* What handleRealTimeUpdate does for a message: storeRealTimeData,        *)
(* processForAlerts, broadcastUpdate.                                      *)
MessageStages == <<"store", "alerts", "broadcast">>

(* What the interval callback of RealTimeMonitor awaits for an update:     *)
(* processVehicleData, which evaluates the rules and creates the alerts.   *)
PollStages == <<"evaluateRule", "createAlert">>

StagesOf(run) ==
  CASE run.source = "tick" -> TickStages
    [] run.source = "message" -> MessageStages
    [] run.source = "poll" -> PollStages

Finished(run) == run.pc > Len(StagesOf(run))

LaneEvent == [vehicleId |-> "v1", latitude |-> 0, longitude |-> 0, speed |-> 0,
              timestamp |-> 0]

(* setInterval fires the callback of startTracking ("tick") or of          *)
(* RealTimeMonitor ("poll"), 30 s after the last time and whatever the     *)
(* earlier callbacks still await: event N + 1 of the vehicle is fetched    *)
(* and its first stage starts.                                             *)
IntervalFires(source) ==
  /\ Len(stream) < MaxSamples
  /\ now' = now + PollInterval
  /\ stream' = Append(stream, [LaneEvent EXCEPT !.timestamp = now'])
  /\ processing' = Append(processing, [source |-> source, n |-> Len(stream) + 1, pc |-> 1])
  /\ UNCHANGED <<serviceVars, alerts, broadcasts, callVars, ruleVars, location_updates,
                 geofences, maintenance_records, pipeline>>

(* wsConnection.onmessage: handleRealTimeUpdate is called and not awaited. *)
MessageArrives ==
  /\ Len(stream) < MaxSamples
  /\ stream' = Append(stream, [LaneEvent EXCEPT !.timestamp = now])
  /\ processing' = Append(processing,
                          [source |-> "message", n |-> Len(stream) + 1, pc |-> 1])
  /\ UNCHANGED <<serviceVars, now, alerts, broadcasts, callVars, ruleVars, location_updates,
                 geofences, maintenance_records, pipeline>>

(* The stage run r awaits ends and the run goes on with its next stage. *)
StageCompletes(r) ==
  /\ ~Finished(processing[r])
  /\ processing' = [processing EXCEPT ![r].pc = @ + 1]
  /\ UNCHANGED <<serviceVars, now, alerts, broadcasts, callVars, ruleVars, fleetVars>>

InitLanes ==
  /\ now = 0
  /\ alerts = <<>>
  /\ broadcasts = {}
  /\ calls = [p \in Callers |-> IdleCall]
  /\ completed = <<>>
  /\ alertRules = <<>>
  /\ speedLimitCache = EmptyCache
  /\ lastCall = NoCall
  /\ processing = <<>>
  /\ trips = <<>>
  /\ notifications = <<>>
  /\ updateInterval = NULL
  /\ notification_preferences = <<>>
  /\ NoLifecycle
  /\ NoFleet

NextLanes ==
  \/ IntervalFires("tick")
  \/ IntervalFires("poll")
  \/ MessageArrives
  \/ \E r \in 1..Len(processing) : StageCompletes(r)

SpecLanes == InitLanes /\ [][NextLanes]_vars

----------------------------------------------------------------------------
(* Events that arrive late: the timestamp is the provider's *)

(* How long before its arrival a sample was recorded, in seconds: at once, *)
(* or held back by the device or the provider past one or two later ones.  *)
(* normalizeVehicleData and normalizeRealTimeData take the timestamp the   *)
(* provider reports.                                                       *)
Delays == {0, PollInterval + 10, 2 * PollInterval + 20}

(* In the depot circle, in no geofence. *)
OrderPositions == {<<0, 0>>, <<0, 600>>}

(* Vehicle v1's next event arrives, recorded delay seconds before; the     *)
(* event before it has been stored by then.                                *)
DelayedSample(pos, delay) ==
  /\ Len(stream) < MaxSamples
  /\ stream = <<>> \/ LatestStored
  /\ now' = now + PollInterval
  /\ stream' = Append(stream, [vehicleId |-> "v1", latitude |-> pos[1],
                               longitude |-> pos[2], speed |-> 0,
                               timestamp |-> now' - delay])
  /\ UNCHANGED <<serviceVars, processing, alerts, broadcasts, callVars, ruleVars, location_updates,
                 geofences, maintenance_records, pipeline>>

InitOrder ==
  /\ now = 0
  /\ alerts = <<>>
  /\ broadcasts = {}
  /\ calls = [p \in Callers |-> IdleCall]
  /\ completed = <<>>
  /\ pipeline \in {"tracking", "monitor"}
  /\ alertRules = IF pipeline = "monitor" THEN <<GeofenceRule>> ELSE <<>>
  /\ speedLimitCache = EmptyCache
  /\ lastCall = NoCall
  /\ processing = <<>>
  /\ trips = <<>>
  /\ notifications = <<>>
  /\ updateInterval = NULL
  /\ notification_preferences = <<>>
  /\ NoLifecycle
  /\ location_updates = <<>>
  /\ geofences = <<Depot(TRUE, TRUE)>>
  /\ maintenance_records = <<>>
  /\ stream = <<>>

NextOrder ==
  \/ \E pos \in OrderPositions, delay \in Delays : DelayedSample(pos, delay)
  \/ StoreAndCheckGeofences
  \/ HandleRealTimeUpdate
  \/ \E i \in 1..Len(alertRules) : CheckGeofenceViolation(alertRules[i])

SpecOrder == InitOrder /\ [][NextOrder]_vars

----------------------------------------------------------------------------
(* Trips: RealTimeService.updateTripData *)

MaxTripEvents == 3

(* location.speed > 5 *)
TripSpeed == 500

(* On the equator, 1000 units (1.111 km) apart. *)
TripPositions == {<<0, 0>>, <<0, 1000>>}
TripSpeeds == {0, 500, 501, 3000}

(* currentTrip.max_speed || 0 *)
OrZero(x) == IF Falsy(x) THEN 0 ELSE x[1]

(* Column distance_km decimal(8, 2): distance / 1000, a distance in        *)
(* millimetres, rounded to hundredths of a kilometre.                      *)
DistanceKm(mm) == (mm + 5000) \div 10000

(* from('trips').eq('vehicle_id', v).eq('trip_status', 'in_progress')      *)
(* .order('start_time', descending).limit(1).single(): the position of     *)
(* the row, 0 if there is none.                                            *)
CurrentTrip(table, vehicleId) ==
  LET S == {i \in 1..Len(table) : /\ table[i].vehicle_id = vehicleId
                                  /\ table[i].trip_status = "in_progress"}
  IN IF S = {}
     THEN 0
     ELSE CHOOSE i \in S :
            \A j \in S : \/ table[j].start_time < table[i].start_time
                         \/ (table[j].start_time = table[i].start_time /\ j >= i)

OpensTripInclusive(speed) == speed >= TripSpeed

(* else if (location.speed > 5) *)
OpensTrip(speed) == speed > TripSpeed

(* A service that extends the trip of a moving vehicle only. *)
TripRequestMovingOnly(currentTrip, speed) ==
  IF currentTrip # 0 /\ OpensTrip(speed) THEN "update"
  ELSE IF currentTrip = 0 /\ OpensTrip(speed) THEN "insert"
  ELSE "none"

(* What updateTripData asks of the table: if (currentTrip) update, else    *)
(* if (location.speed > 5) insert.                                         *)
TripRequest(currentTrip, speed) ==
  IF currentTrip # 0 THEN "update"
  ELSE IF OpensTrip(speed) THEN "insert"
  ELSE "none"

MaxSpeedLatest(currentMax, speed) == speed

(* Math.max(currentTrip.max_speed || 0, location.speed) *)
MaxSpeed(currentMax, speed) ==
  IF OrZero(currentMax) >= speed THEN OrZero(currentMax) ELSE speed

(* The row of the insert; the columns it leaves out are null. *)
NewTrip(location) ==
  [vehicle_id |-> location.vehicleId,
   start_location_lat |-> location.latitude, start_location_lng |-> location.longitude,
   end_location_lat |-> Absent, end_location_lng |-> Absent,
   start_time |-> location.timestamp, distance_km |-> Absent,
   max_speed |-> Present(location.speed), trip_status |-> "in_progress"]

(* The row after the update of lines 250-259. *)
ExtendedTrip(trip, location) ==
  [trip EXCEPT
     !.end_location_lat = Present(location.latitude),
     !.end_location_lng = Present(location.longitude),
     !.distance_km = Present(DistanceKm(calculateDistance(trip.start_location_lat,
                                                          trip.start_location_lng,
                                                          location.latitude,
                                                          location.longitude))),
     !.max_speed = Present(MaxSpeed(trip.max_speed, location.speed))]

(* A trip of vehicle v1 that was closed before, and a trip of vehicle v2   *)
(* that is under way: rows the queries of v1 skip.                         *)
ClosedTrip ==
  [vehicle_id |-> "v1", start_location_lat |-> 0, start_location_lng |-> 0,
   end_location_lat |-> Present(0), end_location_lng |-> Present(1000),
   start_time |-> -3600, distance_km |-> Present(111), max_speed |-> Present(4000),
   trip_status |-> "completed"]

OtherVehicleTrip ==
  [ClosedTrip EXCEPT !.vehicle_id = "v2", !.start_time = -60,
                     !.trip_status = "in_progress"]

(* The interval callback reaches updateTripData with the next location of  *)
(* vehicle v1, PollInterval after the last one; the database accepts the   *)
(* write (ok) or answers with an error, which the code does not look at.   *)
UpdateTripData(pos, speed, ok) ==
  /\ Len(stream) < MaxTripEvents
  /\ now' = now + PollInterval
  /\ LET location    == [vehicleId |-> "v1", latitude |-> pos[1], longitude |-> pos[2],
                         speed |-> speed, timestamp |-> now']
         currentTrip == CurrentTrip(trips, "v1")
         request     == TripRequest(currentTrip, speed)
     IN /\ request = "none" => ok
        /\ stream' = Append(stream, location)
        /\ trips' = IF ~ok \/ request = "none" THEN trips
                    ELSE IF request = "insert" THEN Append(trips, NewTrip(location))
                    ELSE [trips EXCEPT ![currentTrip] = ExtendedTrip(@, location)]
        /\ processing' = Append(processing, [source |-> "updateTripData",
                                             n |-> Len(stream) + 1, written |-> ok])
        /\ lastCall' = [fn |-> "updateTripData", k |-> Len(stream) + 1, data |-> location,
                        before |-> trips, request |-> request, ok |-> ok]
  /\ UNCHANGED <<lifecycleVars, alerts, broadcasts, callVars, alertRules, speedLimitCache,
                 location_updates, geofences, maintenance_records, pipeline,
                 notifications, updateInterval, notification_preferences>>

InitTrip ==
  /\ now = 0
  /\ alerts = <<>>
  /\ broadcasts = {}
  /\ calls = [p \in Callers |-> IdleCall]
  /\ completed = <<>>
  /\ alertRules = <<>>
  /\ speedLimitCache = EmptyCache
  /\ lastCall = NoCall
  /\ processing = <<>>
  /\ trips \in {<<>>, <<ClosedTrip, OtherVehicleTrip>>}
  /\ notifications = <<>>
  /\ updateInterval = NULL
  /\ notification_preferences = <<>>
  /\ NoLifecycle
  /\ location_updates = <<>>
  /\ geofences = <<>>
  /\ maintenance_records = <<>>
  /\ stream = <<>>
  /\ pipeline = "tracking"

NextTrip ==
  \E pos \in TripPositions, speed \in TripSpeeds, ok \in BOOLEAN :
     UpdateTripData(pos, speed, ok)

SpecTrip == InitTrip /\ [][NextTrip]_vars

----------------------------------------------------------------------------
(* Real-time payloads: RealGPSService.handleRealTimeUpdate *)

MaxMessages == 3

(* a || b for optional numbers: undefined and 0 give b. *)
OrElse(a, b) == IF Falsy(a) THEN b ELSE a

(* a || b for optional identifiers, none of which is the empty string. *)
OrElseId(a, b) == IF a = Absent THEN b ELSE a

(* A message as the provider sends it, recorded at time t: with the field  *)
(* names device_id, latitude, longitude or deviceId, lat, lng.             *)
Payload(t) ==
  [device_id |-> Present("d1"), deviceId |-> Absent,
   vehicle_id |-> Present("v1"), vehicleId |-> Absent,
   latitude |-> Present(100), lat |-> Absent,
   longitude |-> Present(200), lng |-> Absent,
   speed |-> Present(3000), timestamp |-> Present(t)]

(* Well-formed payloads in both spellings and at latitude 0, and payloads  *)
(* without device id, of a device no vehicle carries, without latitude,    *)
(* without longitude, without timestamp.                                   *)
Payloads(t) ==
  { Payload(t),
    [Payload(t) EXCEPT !.device_id = Absent, !.deviceId = Present("d1"),
                       !.latitude = Absent, !.lat = Present(100),
                       !.longitude = Absent, !.lng = Present(200)],
    [Payload(t) EXCEPT !.latitude = Present(0)],
    [Payload(t) EXCEPT !.device_id = Absent],
    [Payload(t) EXCEPT !.device_id = Present("d9")],
    [Payload(t) EXCEPT !.latitude = Absent],
    [Payload(t) EXCEPT !.longitude = Absent],
    [Payload(t) EXCEPT !.timestamp = Absent] }

(* normalizeRealTimeData at time t: every field is taken as it is or       *)
(* defaulted, none is required.                                            *)
normalizeRealTimeData(data, t) ==
  [deviceId  |-> OrElseId(data.device_id, data.deviceId),
   vehicleId |-> OrElseId(data.vehicle_id, data.vehicleId),
   latitude  |-> OrElse(data.latitude, data.lat),
   longitude |-> OrElse(data.longitude, data.lng),
   speed     |-> OrElse(data.speed, Present(0)),
   timestamp |-> OrElse(data.timestamp, Present(t))]

(* from('vehicles').select('id').eq('gps_device_id', deviceId).single():   *)
(* vehicle v1 carries device d1.                                           *)
VehicleOfDevice(deviceId) ==
  IF deviceId = Present("d1") THEN Present("v1") ELSE Absent

(* The insert of storeRealTimeData: latitude, longitude and timestamp are  *)
(* NOT NULL columns of location_updates, so a row without one is refused.  *)
StoreRealTimeData(table, data) ==
  LET vehicle == VehicleOfDevice(data.deviceId)
  IN IF vehicle = Absent \/ data.latitude = Absent \/ data.longitude = Absent
     THEN table
     ELSE Append(table, [vehicle_id |-> vehicle[1], latitude |-> data.latitude[1],
                         longitude |-> data.longitude[1], speed |-> data.speed[1],
                         timestamp |-> data.timestamp[1]])

(* broadcastUpdate: the message on channel 'vehicle_updates'. *)
VehicleUpdate(data) ==
  [channel |-> "vehicle_updates", event |-> "location_update", payload |-> data]

(* wsConnection.onmessage with a payload recorded a second ago:            *)
(* handleRealTimeUpdate normalizes it, stores it, runs the empty           *)
(* processForAlerts and broadcasts it.                                     *)
OnMessage(payload) ==
  /\ Len(processing) < MaxMessages
  /\ LET normalizedData == normalizeRealTimeData(payload, now)
     IN /\ location_updates' = StoreRealTimeData(location_updates, normalizedData)
        /\ broadcasts' = broadcasts \cup {VehicleUpdate(normalizedData)}
        /\ processing' = Append(processing, [source |-> "handleRealTimeUpdate",
                                             n |-> Len(processing) + 1])
        /\ lastCall' = [fn |-> "handleRealTimeUpdate", payload |-> payload,
                        normalizedData |-> normalizedData,
                        before |-> location_updates, sent |-> broadcasts]
  /\ UNCHANGED <<serviceVars, now, alerts, callVars, alertRules, speedLimitCache,
                 geofences, maintenance_records, stream, pipeline>>

(* A second passes. *)
MessageTick ==
  /\ now < MaxMessages
  /\ now' = now + 1
  /\ UNCHANGED <<serviceVars, processing, alerts, broadcasts, callVars, ruleVars,
                 fleetVars>>

InitMessages ==
  /\ now = 1
  /\ alerts = <<>>
  /\ broadcasts = {}
  /\ calls = [p \in Callers |-> IdleCall]
  /\ completed = <<>>
  /\ alertRules = <<>>
  /\ speedLimitCache = EmptyCache
  /\ lastCall = NoCall
  /\ processing = <<>>
  /\ trips = <<>>
  /\ notifications = <<>>
  /\ updateInterval = NULL
  /\ notification_preferences = <<>>
  /\ NoLifecycle
  /\ location_updates = <<>>
  /\ geofences = <<>>
  /\ maintenance_records = <<>>
  /\ stream = <<>>
  /\ pipeline = "monitor"

NextMessages ==
  \/ \E payload \in Payloads(now - 1) : OnMessage(payload)
  \/ MessageTick

SpecMessages == InitMessages /\ [][NextMessages]_vars

----------------------------------------------------------------------------
(* createAlert from insert to broadcast, and sendNotifications *)

(* What the POST of sendWebhookNotification does: it is answered (with     *)
(* whatever status) or the fetch rejects.                                  *)
WebhookOutcomes == {"ok", "rejects"}

Preference(organizationId, alertType, email, sms, webhook) ==
  [organization_id |-> organizationId, alert_type |-> alertType,
   email_enabled |-> email, sms_enabled |-> sms, webhook_enabled |-> webhook]

(* from('notification_preferences').eq('organization_id', ...)             *)
(* .eq('alert_type', ...) *)
Matches(pref, alert) ==
  /\ pref.organization_id = alert.organization_id
  /\ pref.alert_type = alert.alert_type

(* A sendWebhookNotification that lets the rejection of its fetch out. *)
WebhookPropagates(outcome) == outcome # "rejects"

(* sendWebhookNotification catches the rejection of its fetch itself, so   *)
(* the loop of sendNotifications goes on after every outcome.              *)
WebhookReturns(outcome) == TRUE

(* The sends of the loop body for one preference: email, SMS, webhook. *)
PreferenceSends(id, i, pref, outcome) ==
  (IF pref.email_enabled
   THEN <<[alert |-> id, preference |-> i, channel |-> "email", outcome |-> "ok"]>>
   ELSE <<>>) \o
  (IF pref.sms_enabled
   THEN <<[alert |-> id, preference |-> i, channel |-> "sms", outcome |-> "ok"]>>
   ELSE <<>>) \o
  (IF pref.webhook_enabled
   THEN <<[alert |-> id, preference |-> i, channel |-> "webhook", outcome |-> outcome]>>
   ELSE <<>>)

RECURSIVE Sends(_, _, _, _, _)
(* The sends of sendNotifications for the alert of position id, from       *)
(* preference i on; outcomes[i] is what the webhook of preference i does.  *)
Sends(id, alert, table, i, outcomes) ==
  IF i > Len(table)
  THEN <<>>
  ELSE IF ~Matches(table[i], alert)
  THEN Sends(id, alert, table, i + 1, outcomes)
  ELSE PreferenceSends(id, i, table[i], outcomes[i]) \o
       (IF table[i].webhook_enabled /\ ~WebhookReturns(outcomes[i])
        THEN <<>>
        ELSE Sends(id, alert, table, i + 1, outcomes))

AfterInsertUnchecked(ok) == "notify"

(* if (error) throw error: the catch of createAlert ends the call. *)
AfterInsert(ok) == IF ok THEN "notify" ELSE "idle"

(* Lines 402-421: the insert; the database accepts it (ok) or answers      *)
(* with an error.                                                          *)
InsertAlertRow(p, ok) ==
  /\ calls[p].pc = "insert"
  /\ LET call == calls[p]
     IN /\ alerts' = IF ok THEN InsertAlert(alerts, call.alertData, now) ELSE alerts
        /\ IF AfterInsert(ok) = "idle"
           THEN /\ calls' = [calls EXCEPT ![p] = IdleCall]
                /\ completed' = Append(completed,
                      [alertData |-> call.alertData,
                       checkedAt |-> call.thirtyMinutesAgo + DedupWindow,
                       seen |-> call.seen, outcome |-> "failed"])
           ELSE /\ calls' = [calls EXCEPT ![p] =
                               [pc |-> "notify", alertData |-> call.alertData,
                                thirtyMinutesAgo |-> call.thirtyMinutesAgo,
                                seen |-> call.seen,
                                alert |-> IF ok THEN Len(alerts) + 1 ELSE 0]]
                /\ completed' = completed
  /\ UNCHANGED <<serviceVars, processing, now, broadcasts, ruleVars, fleetVars>>

(* Line 424, sendNotifications: the preferences of the alert's             *)
(* organization and type, each channel awaited in turn. Reading a field    *)
(* of a null alert throws inside its try and nothing is sent.              *)
SendNotifications(p, outcomes) ==
  /\ calls[p].pc = "notify"
  /\ LET id == calls[p].alert
     IN notifications' =
          IF id = 0
          THEN notifications
          ELSE notifications \o Sends(id, alerts[id], notification_preferences, 1, outcomes)
  /\ calls' = [calls EXCEPT ![p].pc = "broadcast"]
  /\ UNCHANGED <<lifecycleVars, trips, updateInterval, notification_preferences, processing, now,
                 alerts, broadcasts, completed, ruleVars, fleetVars>>

(* Line 427, broadcastAlert, and the return of createAlert. *)
BroadcastAlert(p) ==
  /\ calls[p].pc = "broadcast"
  /\ broadcasts' = broadcasts \cup {[id |-> calls[p].alert]}
  /\ completed' = Append(completed,
        [alertData |-> calls[p].alertData,
         checkedAt |-> calls[p].thirtyMinutesAgo + DedupWindow,
         seen |-> calls[p].seen, outcome |-> "inserted", alert |-> calls[p].alert])
  /\ calls' = [calls EXCEPT ![p] = IdleCall]
  /\ UNCHANGED <<serviceVars, processing, now, alerts, ruleVars, fleetVars>>

(* The preferences of the organizations: two for speeding alerts of org1,  *)
(* the first with any channels, one of org2, one for geofence entries.     *)
PreferenceTables ==
  { << Preference("org1", "speeding", email, sms, webhook),
       Preference("org2", "speeding", TRUE, TRUE, TRUE),
       Preference("org1", "speeding", TRUE, FALSE, TRUE),
       Preference("org1", "geofence_entry", FALSE, FALSE, TRUE) >> :
    email \in BOOLEAN, sms \in BOOLEAN, webhook \in BOOLEAN }

InitDispatch ==
  /\ now = 0
  /\ alerts = <<>>
  /\ broadcasts = {}
  /\ calls = [p \in Callers |-> IdleCall]
  /\ completed = <<>>
  /\ alertRules = <<>>
  /\ speedLimitCache = EmptyCache
  /\ lastCall = NoCall
  /\ processing = <<>>
  /\ trips = <<>>
  /\ notifications = <<>>
  /\ updateInterval = NULL
  /\ notification_preferences \in PreferenceTables
  /\ NoLifecycle
  /\ NoFleet

(* One createAlert after the other, as the awaiting rule loop calls it,   *)
(* all within the 30 minutes of the first.                                 *)
NextDispatch ==
  \/ \E c \in Candidates : BeginSequential(1, c)
  \/ CheckDuplicate(1)
  \/ \E ok \in BOOLEAN : InsertAlertRow(1, ok)
  \/ \E outcomes \in [1..Len(notification_preferences) -> WebhookOutcomes] :
        SendNotifications(1, outcomes)
  \/ BroadcastAlert(1)

SpecDispatch == InitDispatch /\ [][NextDispatch]_vars

----------------------------------------------------------------------------
(* Reload of the configuration during an evaluation *)

(* What the table alert_rules holds for org1 when loadAlertRules reads it. *)
RuleTables ==
  { << GeofenceRule, [GeofenceRule EXCEPT !.id = "r5"] >>,
    << SpeedingRule(NoConditions), GeofenceRule >>,
    << GeofenceRule >> }

(* What the table geofences can be changed to. *)
GeofenceTables ==
  { << Depot(TRUE, TRUE) >>, << Depot(TRUE, TRUE), Yard >>, << Yard >> }

(* loadAlertRules, called by the subscription on table alert_rules: the    *)
(* rows are grouped into a new map, which replaces this.alertRules in one  *)
(* assignment.                                                             *)
LoadAlertRules(rules) ==
  /\ alertRules # rules
  /\ alertRules' = rules
  /\ UNCHANGED <<serviceVars, processing, now, alerts, broadcasts, callVars,
                 speedLimitCache, lastCall, fleetVars>>

(* An administrator changes the geofences of the organization. *)
ChangeGeofences(table) ==
  /\ geofences # table
  /\ geofences' = table
  /\ UNCHANGED <<serviceVars, processing, now, alerts, broadcasts, callVars, ruleVars,
                 location_updates, maintenance_records, stream, pipeline>>

(* processVehicleData, line 67: the array of the organization's rules is   *)
(* taken from the map once, before the loop; the call before it has        *)
(* returned.                                                               *)
ProcessVehicleData ==
  /\ Len(processing) < MaxTicks
  /\ \A r \in 1..Len(processing) : processing[r].i > Len(processing[r].rules)
  /\ processing' = Append(processing,
                          [source |-> "processVehicleData", rules |-> alertRules,
                           i |-> 1, evaluated |-> <<>>, geofencesSeen |-> <<>>])
  /\ UNCHANGED <<serviceVars, now, alerts, broadcasts, callVars, ruleVars, fleetVars>>

(* The loop of lines 69-71 evaluates the next rule of the array; a         *)
(* geofence rule queries the active geofences at that moment (lines        *)
(* 139-143).                                                               *)
EvaluateNextRule(r) ==
  /\ processing[r].source = "processVehicleData"
  /\ processing[r].i <= Len(processing[r].rules)
  /\ LET run  == processing[r]
         rule == run.rules[run.i]
     IN processing' =
          [processing EXCEPT
             ![r].i = @ + 1,
             ![r].evaluated = Append(@, rule.id),
             ![r].geofencesSeen =
                IF rule.type = "geofence"
                THEN Append(@, ActiveGeofences(geofences, rule.organizationId))
                ELSE @]
  /\ UNCHANGED <<serviceVars, now, alerts, broadcasts, callVars, ruleVars, fleetVars>>

InitReload ==
  /\ now = 0
  /\ alerts = <<>>
  /\ broadcasts = {}
  /\ calls = [p \in Callers |-> IdleCall]
  /\ completed = <<>>
  /\ alertRules = <<>>
  /\ speedLimitCache = EmptyCache
  /\ lastCall = NoCall
  /\ processing = <<>>
  /\ trips = <<>>
  /\ notifications = <<>>
  /\ updateInterval = NULL
  /\ notification_preferences = <<>>
  /\ NoLifecycle
  /\ location_updates = <<>>
  /\ geofences \in GeofenceTables
  /\ maintenance_records = <<>>
  /\ stream = <<>>
  /\ pipeline = "monitor"

NextReload ==
  \/ \E rules \in RuleTables : LoadAlertRules(rules)
  \/ \E table \in GeofenceTables : ChangeGeofences(table)
  \/ ProcessVehicleData
  \/ \E r \in 1..Len(processing) : EvaluateNextRule(r)

SpecReload == InitReload /\ [][NextReload]_vars

----------------------------------------------------------------------------
(* startTracking and stopTracking *)

(* The external calls the interval callback issues and awaits, in order:   *)
(* fetchVehicleLocations, then the stages of the location.                 *)
CallbackCalls == <<"fetch">> \o TickStages

(* The call the callback issues now; stopped tells whether stopTracking    *)
(* had cleared the timer by then.                                          *)
IssuedCall(name, interval) == [call |-> name, stopped |-> interval = NULL]

(* startTracking: the vehicles are read and the timer is set. *)
StartTracking ==
  /\ updateInterval = NULL
  /\ lastCall = NoCall
  /\ updateInterval' = "timer"
  /\ lastCall' = [fn |-> "startTracking"]
  /\ UNCHANGED <<lifecycleVars, trips, notifications, notification_preferences, processing, now, alerts,
                 broadcasts, callVars, alertRules, speedLimitCache, fleetVars>>

(* The timer fires: the callback starts and issues its fetch. *)
TimerFires ==
  /\ updateInterval # NULL
  /\ Len(processing) < MaxTicks
  /\ now' = now + PollInterval
  /\ processing' = Append(processing,
                          [source |-> "tick", pc |-> 1,
                           issued |-> <<IssuedCall(CallbackCalls[1], updateInterval)>>])
  /\ UNCHANGED <<serviceVars, alerts, broadcasts, callVars, ruleVars, fleetVars>>

(* The call run r awaits completes and the callback issues its next call:  *)
(* nothing in it reads this.updateInterval.                                *)
AwaitedCallCompletes(r) ==
  /\ processing[r].pc <= Len(CallbackCalls)
  /\ processing' =
       [processing EXCEPT
          ![r].pc = @ + 1,
          ![r].issued =
             IF processing[r].pc < Len(CallbackCalls)
             THEN Append(@, IssuedCall(CallbackCalls[processing[r].pc + 1], updateInterval))
             ELSE @]
  /\ UNCHANGED <<serviceVars, now, alerts, broadcasts, callVars, ruleVars, fleetVars>>

(* stopTracking: clearInterval and this.updateInterval = null. *)
StopTracking ==
  /\ updateInterval # NULL
  /\ updateInterval' = NULL
  /\ lastCall' = [fn |-> "stopTracking"]
  /\ UNCHANGED <<lifecycleVars, trips, notifications, notification_preferences, processing, now, alerts,
                 broadcasts, callVars, alertRules, speedLimitCache, fleetVars>>

InitStop ==
  /\ now = 0
  /\ alerts = <<>>
  /\ broadcasts = {}
  /\ calls = [p \in Callers |-> IdleCall]
  /\ completed = <<>>
  /\ alertRules = <<>>
  /\ speedLimitCache = EmptyCache
  /\ lastCall = NoCall
  /\ processing = <<>>
  /\ trips = <<>>
  /\ notifications = <<>>
  /\ updateInterval = NULL
  /\ notification_preferences = <<>>
  /\ NoLifecycle
  /\ NoFleet

NextStop ==
  \/ StartTracking
  \/ TimerFires
  \/ \E r \in 1..Len(processing) : AwaitedCallCompletes(r)
  \/ StopTracking

SpecStop == InitStop /\ [][NextStop]_vars

----------------------------------------------------------------------------
(* The tick of RealTimeService for one location: store, checkSpeeding,     *)
(* checkGeofences, updateTripData *)

(* At the limit plus tolerance, just above it, and 20 mph above the limit. *)
TrackingSpeeds == {4000, 4001, 5501}

(* AlertService.createSpeedingAlert: the row it inserts, with no lookup    *)
(* of earlier alerts.                                                      *)
SpeedingAlert(vehicleId, currentSpeed, speedLimit) ==
  [organizationId |-> "org1", vehicleId |-> vehicleId, alertType |-> "speeding",
   severity |-> IF currentSpeed > speedLimit + HighExcess THEN "high" ELSE "medium"]

(* checkSpeeding: location.speed > speedLimit + 5. *)
TrackingSpeedingCandidates(location, speedLimit) ==
  IF location.speed > speedLimit + DefaultTolerance
  THEN <<SpeedingAlert(location.vehicleId, location.speed, speedLimit)>>
  ELSE <<>>

(* The interval callback for the next location of vehicle v1, every write  *)
(* accepted: storeLocationUpdates, then processLocationForAlerts.          *)
TrackingTick(pos, speed, outcome) ==
  /\ Len(stream) < MaxSamples
  /\ now' = now + PollInterval
  /\ LET location     == [vehicleId |-> "v1", latitude |-> pos[1], longitude |-> pos[2],
                          speed |-> speed, timestamp |-> now']
         table        == Append(location_updates, LocationRow(location))
         speeding     == TrackingSpeedingCandidates(location, TrackingSpeedLimit(outcome))
         prevLocation == RecentLocations(table, location.vehicleId, 2)
         fenced       == GeofenceCandidates("org1", location, prevLocation,
                                            ActiveGeofences(geofences, "org1"))
         candidates   == speeding \o fenced
         currentTrip  == CurrentTrip(trips, "v1")
         request      == TripRequest(currentTrip, speed)
     IN /\ stream' = Append(stream, location)
        /\ location_updates' = table
        /\ alerts' = InsertAlerts(alerts, candidates, now')
        /\ broadcasts' = broadcasts \cup
             {[type |-> candidates[i].alertType, vehicleId |-> location.vehicleId,
               timestamp |-> now'] : i \in 1..Len(candidates)}
        /\ trips' = IF request = "none" THEN trips
                    ELSE IF request = "insert" THEN Append(trips, NewTrip(location))
                    ELSE [trips EXCEPT ![currentTrip] = ExtendedTrip(@, location)]
        /\ lastCall' = [fn |-> "processLocationForAlerts", k |-> Len(stream) + 1,
                        data |-> location, before |-> alerts, submitted |-> candidates]
  /\ UNCHANGED <<lifecycleVars, notifications, updateInterval, notification_preferences, processing,
                 callVars, alertRules, speedLimitCache, geofences, maintenance_records,
                 pipeline>>

InitTracking ==
  /\ now = 0
  /\ alerts = <<>>
  /\ broadcasts = {}
  /\ calls = [p \in Callers |-> IdleCall]
  /\ completed = <<>>
  /\ alertRules = <<>>
  /\ speedLimitCache = EmptyCache
  /\ lastCall = NoCall
  /\ processing = <<>>
  /\ trips = <<>>
  /\ notifications = <<>>
  /\ updateInterval = "timer"
  /\ notification_preferences = <<>>
  /\ NoLifecycle
  /\ location_updates = <<>>
  /\ geofences = <<Depot(TRUE, TRUE)>>
  /\ maintenance_records = <<>>
  /\ stream = <<>>
  /\ pipeline = "tracking"

NextTracking ==
  \E pos \in OrderPositions, speed \in TrackingSpeeds, outcome \in LookupOutcomes :
     TrackingTick(pos, speed, outcome)

SpecTracking == InitTracking /\ [][NextTracking]_vars

----------------------------------------------------------------------------
(* Harsh driving for samples that carry the same timestamp *)

(* Seconds between two reports of the vehicle: the same instant, or 2 s. *)
SameInstantGaps == {0, 2}

InitHarshSameInstant ==
  /\ InitHarsh
  /\ alertRules = <<HarshRule(NoConditions)>>

NextHarshSameInstant ==
  \/ \E speed \in HarshSpeeds, d \in SameInstantGaps : NewSample(<<0, 0>>, speed, d)
  \/ HandleRealTimeUpdate
  \/ \E i \in 1..Len(alertRules) : CheckHarshDriving(alertRules[i])

SpecHarshSameInstant == InitHarshSameInstant /\ [][NextHarshSameInstant]_vars

----------------------------------------------------------------------------
(* Two geofences of one organization, both alerting on entry *)

(* Seconds between two samples: one poll, or more than the dedup window. *)
FenceGaps == {PollInterval, DedupWindow + PollInterval}

(* Positions in the depot only, in the depot and the yard, in neither. *)
FencePositions == {<<0, 0>>, <<0, 200>>, <<0, 600>>}

InitFences ==
  /\ now = 0
  /\ alerts = <<>>
  /\ broadcasts = {}
  /\ calls = [p \in Callers |-> IdleCall]
  /\ completed = <<>>
  /\ pipeline = "monitor"
  /\ alertRules = <<GeofenceRule>>
  /\ speedLimitCache = EmptyCache
  /\ lastCall = NoCall
  /\ processing = <<>>
  /\ trips = <<>>
  /\ notifications = <<>>
  /\ updateInterval = NULL
  /\ notification_preferences = <<>>
  /\ NoLifecycle
  /\ location_updates = <<OtherVehicleRow>>
  /\ geofences = <<Depot(TRUE, FALSE), Yard>>
  /\ maintenance_records = <<>>
  /\ stream = <<>>

NextFences ==
  \/ \E pos \in FencePositions, d \in FenceGaps : NewSample(pos, 0, d)
  \/ HandleRealTimeUpdate
  \/ \E i \in 1..Len(alertRules) : CheckGeofenceViolation(alertRules[i])

SpecFences == InitFences /\ [][NextFences]_vars

----------------------------------------------------------------------------
(* The organization of a loaded rule and of the alerts it raises *)

(* What rule.organizationId gives for a row without that property; the     *)
(* insert writes no organization for it.                                   *)
Undefined == "undefined"

(* A row of alert_rules as select('*') returns it: organization_id is the  *)
(* column loadAlertRules groups by (line 53); camel: the row has a         *)
(* property organizationId as well, as interface AlertRule declares.       *)
RuleRow(id, organization, tolerance, camel) ==
  [id |-> id, organization_id |-> organization,
   organizationId |-> IF camel THEN organization ELSE Undefined,
   type |-> "speeding", conditions |-> [tolerance |-> tolerance]]

RuleRowTables ==
  UNION { { <<RuleRow("r1", "org1", 500, camel)>>,
            <<RuleRow("r1", "org1", 500, camel), RuleRow("r5", "org2", 500, camel)>>,
            <<RuleRow("r5", "org2", 500, camel), RuleRow("r1", "org1", 500, camel),
              RuleRow("r6", "org1", 1000, camel)>> } : camel \in BOOLEAN }

(* Lines 50-56: the rows grouped by rule.organization_id, in table order. *)
RulesByOrg(rules) ==
  [o \in {rules[i].organization_id : i \in 1..Len(rules)} |->
     SelectSeq(rules, LAMBDA rule : rule.organization_id = o)]

(* Line 67: this.alertRules.get(organizationId) || [] *)
RulesOf(rulesByOrg, organizationId) ==
  IF organizationId \in DOMAIN rulesByOrg THEN rulesByOrg[organizationId] ELSE <<>>

(* The lookup of createAlert with the organization of the candidate: the   *)
(* filter on an undefined organization selects no row.                     *)
ExistingAlertOf(table, alertData, thirtyMinutesAgo) ==
  /\ alertData.organizationId # Undefined
  /\ ExistingAlert(table, alertData, thirtyMinutesAgo)

(* Lines 69-71: the rules evaluated in turn, each candidate awaited. *)
RECURSIVE EvaluateRules(_, _, _, _, _, _)
EvaluateRules(table, rules, data, speedLimit, t, ok) ==
  IF rules = <<>>
  THEN table
  ELSE LET candidates == SpeedingCandidates(Head(rules), data, speedLimit)
           after == IF candidates = <<>>
                       \/ ExistingAlertOf(table, candidates[1], ThirtyMinutesAgo(t))
                       \/ ~ok
                    THEN table
                    ELSE InsertAlert(table, candidates[1], t)
       IN EvaluateRules(after, Tail(rules), data, speedLimit, t, ok)

RECURSIVE SubmittedBy(_, _, _)
SubmittedBy(rules, data, speedLimit) ==
  IF rules = <<>>
  THEN <<>>
  ELSE SpeedingCandidates(Head(rules), data, speedLimit)
         \o SubmittedBy(Tail(rules), data, speedLimit)

OwnedSpeeds == {3500, 4501, 5001}
Organizations == {"org1", "org2", "org3"}

(* loadAlertRules: the enabled rows replace the map. *)
LoadRulesByOrg(rules) ==
  /\ alertRules # RulesByOrg(rules)
  /\ alertRules' = RulesByOrg(rules)
  /\ UNCHANGED <<serviceVars, processing, now, alerts, broadcasts, callVars,
                 speedLimitCache, lastCall, fleetVars>>

(* processVehicleData(data, organizationId) for an event of vehicle v1. *)
ProcessVehicleDataOf(organizationId, speed, outcome, ok) ==
  LET pos        == <<4712341, 812340>>
      data       == [vehicleId |-> "v1", latitude |-> pos[1], longitude |-> pos[2],
                     speed |-> speed]
      rules      == RulesOf(alertRules, organizationId)
      speedLimit == SpeedLimit(speedLimitCache, pos[1], pos[2], now, outcome)
  IN /\ Len(alerts) < MaxCalls
     /\ speedLimitCache' = IF rules = <<>> THEN speedLimitCache
                           ELSE CacheAfter(speedLimitCache, pos[1], pos[2], now, outcome)
     /\ alerts' = EvaluateRules(alerts, rules, data, speedLimit, now, ok)
     /\ broadcasts' = Broadcast(broadcasts, alerts, alerts')
     /\ lastCall' = [fn |-> "processVehicleData", organizationId |-> organizationId,
                     data |-> data, before |-> alerts,
                     submitted |-> SubmittedBy(rules, data, speedLimit)]
     /\ UNCHANGED <<serviceVars, processing, now, alertRules, callVars, fleetVars>>

InitOwnership ==
  /\ now = 0
  /\ alerts = <<>>
  /\ broadcasts = {}
  /\ calls = [p \in Callers |-> IdleCall]
  /\ completed = <<>>
  /\ alertRules = RulesByOrg(<<>>)
  /\ speedLimitCache = EmptyCache
  /\ lastCall = NoCall
  /\ processing = <<>>
  /\ trips = <<>>
  /\ notifications = <<>>
  /\ updateInterval = NULL
  /\ notification_preferences = <<>>
  /\ NoLifecycle
  /\ NoFleet

NextOwnership ==
  \/ \E rules \in RuleRowTables : LoadRulesByOrg(rules)
  \/ \E organizationId \in Organizations, speed \in OwnedSpeeds, ok \in BOOLEAN :
        \E outcome \in LookupsFor(<<4712341, 812340>>) :
           ProcessVehicleDataOf(organizationId, speed, outcome, ok)
  \/ \E d \in SpeedClockSteps : SpeedTick(d)

SpecOwnership == InitOwnership /\ [][NextOwnership]_vars

----------------------------------------------------------------------------
(* The WebSocket connection of RealGPSService *)

MaxSockets == 3

(* setTimeout(..., 5000) of onclose and of reconnect, in seconds. *)
ReconnectDelay == 5

MaxConnectionTime == 4 * ReconnectDelay

(* new WebSocket(wsUrl): the socket is connecting. *)
NewSocket == [readyState |-> "connecting"]

Timeout(fn, t) == [fn |-> fn, due |-> t + ReconnectDelay]

RemoveAt(seq, i) == SubSeq(seq, 1, i - 1) \o SubSeq(seq, i + 1, Len(seq))

(* Lines 44-74: a new socket is created and held in wsConnection, whatever *)
(* wsConnection held before; its four handlers are set.                    *)
InitializeRealTimeConnection ==
  /\ Len(sockets) < MaxSockets
  /\ sockets' = Append(sockets, NewSocket)
  /\ wsConnection' = Present(Len(sockets) + 1)

(* RealTimeMonitor calls initializeRealTimeConnection when it mounts. *)
Connect ==
  /\ sockets = <<>> /\ ~stopped
  /\ InitializeRealTimeConnection
  /\ UNCHANGED <<trips, notifications, updateInterval, notification_preferences,
                 timers, stopped, subscribers, invocations, processing, now, alerts,
                 broadcasts, callVars, ruleVars, fleetVars>>

(* onopen: authenticate sends the token. *)
SocketOpens(s) ==
  /\ sockets[s].readyState = "connecting"
  /\ sockets' = [sockets EXCEPT ![s].readyState = "open"]
  /\ UNCHANGED <<trips, notifications, updateInterval, notification_preferences,
                 wsConnection, timers, stopped, subscribers, invocations, processing,
                 now, alerts, broadcasts, callVars, ruleVars, fleetVars>>

(* The connection fails: the error event is dispatched, the close event    *)
(* of the socket follows. onerror calls reconnect, which sets the timer    *)
(* for initializeRealTimeConnection (lines 60-63, 437-441).                *)
SocketErrors(s) ==
  /\ sockets[s].readyState \in {"connecting", "open"}
  /\ sockets' = [sockets EXCEPT ![s].readyState = "failed"]
  /\ timers' = Append(timers, Timeout("initializeRealTimeConnection", now))
  /\ UNCHANGED <<trips, notifications, updateInterval, notification_preferences,
                 wsConnection, stopped, subscribers, invocations, processing,
                 now, alerts, broadcasts, callVars, ruleVars, fleetVars>>

(* The close event: after an error, after close(), or when the provider    *)
(* ends the connection. onclose sets the timer for reconnect (lines 65-68). *)
SocketCloses(s) ==
  /\ sockets[s].readyState \in {"open", "failed", "closing"}
  /\ sockets' = [sockets EXCEPT ![s].readyState = "closed"]
  /\ timers' = Append(timers, Timeout("reconnect", now))
  /\ UNCHANGED <<trips, notifications, updateInterval, notification_preferences,
                 wsConnection, stopped, subscribers, invocations, processing,
                 now, alerts, broadcasts, callVars, ruleVars, fleetVars>>

(* A timer that is due fires: reconnect sets the timer for                 *)
(* initializeRealTimeConnection, which opens a new socket.                 *)
TimeoutFires(i) ==
  /\ timers[i].due <= now
  /\ \A j \in 1..Len(timers) : timers[j].due >= timers[i].due
  /\ IF timers[i].fn = "reconnect"
     THEN /\ timers' = Append(RemoveAt(timers, i),
                              Timeout("initializeRealTimeConnection", now))
          /\ UNCHANGED <<wsConnection, sockets>>
     ELSE /\ timers' = RemoveAt(timers, i)
          /\ InitializeRealTimeConnection
  /\ UNCHANGED <<trips, notifications, updateInterval, notification_preferences,
                 stopped, subscribers, invocations, processing,
                 now, alerts, broadcasts, callVars, ruleVars, fleetVars>>

(* disconnect, lines 444-449: the socket held is closed and let go. *)
Disconnect ==
  /\ sockets # <<>> /\ ~stopped
  /\ IF wsConnection # Absent
     THEN sockets' = [sockets EXCEPT ![wsConnection[1]].readyState =
                         IF @ \in {"connecting", "open"} THEN "closing" ELSE @]
     ELSE sockets' = sockets
  /\ wsConnection' = Absent
  /\ stopped' = TRUE
  /\ UNCHANGED <<trips, notifications, updateInterval, notification_preferences,
                 timers, subscribers, invocations, processing,
                 now, alerts, broadcasts, callVars, ruleVars, fleetVars>>

(* onmessage of an open socket: the handlers of a socket stay set when     *)
(* wsConnection no longer holds it.                                        *)
SocketMessage(s) ==
  /\ sockets[s].readyState = "open"
  /\ OnMessage(Payload(now))

ConnectionTick ==
  /\ now < MaxConnectionTime
  /\ \A i \in 1..Len(timers) : timers[i].due > now
  /\ now' = now + ReconnectDelay
  /\ UNCHANGED <<serviceVars, processing, alerts, broadcasts, callVars, ruleVars,
                 fleetVars>>

InitConnection ==
  /\ InitMessages

NextConnection ==
  \/ Connect
  \/ \E s \in 1..Len(sockets) : SocketOpens(s)
  \/ \E s \in 1..Len(sockets) : SocketErrors(s)
  \/ \E s \in 1..Len(sockets) : SocketCloses(s)
  \/ \E s \in 1..Len(sockets) : SocketMessage(s)
  \/ \E i \in 1..Len(timers) : TimeoutFires(i)
  \/ Disconnect
  \/ ConnectionTick

SpecConnection == InitConnection /\ [][NextConnection]_vars

----------------------------------------------------------------------------
(* The polling timer of RealTimeService: startTracking with its await *)

MaxStarts == 3

(* The handles setInterval returns. *)
TimerIds == <<"timer1", "timer2", "timer3", "timer4">>

(* What the vehicles query of startTracking finds. *)
VehicleAnswers == {"devices", "none"}

(* startTracking is called (by the effect of RealTimeTracker, or again by  *)
(* its owner): it issues the vehicles query and awaits it.                 *)
BeginStartTracking ==
  /\ ~stopped
  /\ Cardinality({r \in 1..Len(processing) : processing[r].source = "startTracking"})
       < MaxStarts
  /\ processing' = Append(processing, [source |-> "startTracking", pc |-> "vehicles"])
  /\ UNCHANGED <<serviceVars, now, alerts, broadcasts, callVars, ruleVars, fleetVars>>

(* Lines 31-61: the query answers; without devices the call returns, with  *)
(* devices setInterval starts a timer and its handle is assigned to        *)
(* this.updateInterval, whatever that held.                                *)
VehiclesAnswer(r, answer) ==
  /\ processing[r].source = "startTracking"
  /\ processing[r].pc = "vehicles"
  /\ processing' = [processing EXCEPT ![r].pc = "done"]
  /\ IF answer = "devices"
     THEN LET id == TimerIds[Cardinality(
                      {q \in 1..Len(processing) :
                         processing[q].source = "startTracking"
                         /\ processing[q].pc = "done"}) + 1]
          IN /\ timers' = Append(timers, id)
             /\ updateInterval' = id
     ELSE UNCHANGED <<timers, updateInterval>>
  /\ UNCHANGED <<trips, notifications, notification_preferences, wsConnection,
                 sockets, stopped, subscribers, invocations, now, alerts, broadcasts,
                 callVars, ruleVars, fleetVars>>

(* The interval of an active timer elapses and its callback starts. *)
IntervalElapses(i) ==
  /\ Cardinality({r \in 1..Len(processing) : processing[r].source = "intervalCallback"})
       < MaxTicks
  /\ now' = now + PollInterval
  /\ processing' = Append(processing, [source |-> "intervalCallback", timer |-> timers[i]])
  /\ UNCHANGED <<serviceVars, alerts, broadcasts, callVars, ruleVars, fleetVars>>

(* stopTracking, lines 71-77: the timer this.updateInterval holds is       *)
(* cleared, if it holds one.                                               *)
StopTrackingReturns ==
  /\ ~stopped
  /\ processing # <<>>
  /\ IF updateInterval # NULL
     THEN /\ timers' = SelectSeq(timers, LAMBDA id : id # updateInterval)
          /\ updateInterval' = NULL
     ELSE UNCHANGED <<timers, updateInterval>>
  /\ stopped' = TRUE
  /\ UNCHANGED <<trips, notifications, notification_preferences, wsConnection,
                 sockets, subscribers, invocations, processing, now, alerts,
                 broadcasts, callVars, ruleVars, fleetVars>>

InitTimers ==
  /\ InitStop

NextTimers ==
  \/ BeginStartTracking
  \/ \E r \in 1..Len(processing), answer \in VehicleAnswers : VehiclesAnswer(r, answer)
  \/ \E i \in 1..Len(timers) : IntervalElapses(i)
  \/ StopTrackingReturns

SpecTimers == InitTimers /\ [][NextTimers]_vars

----------------------------------------------------------------------------
(* updateTripData in two steps: the query for the trip in progress, and    *)
(* the write decided on its result                                         *)

(* Lines 232-239: a tick reaches updateTripData with the next location of  *)
(* vehicle v1 and reads the trip in progress; the write is awaited later.  *)
QueryCurrentTrip(pos, speed) ==
  /\ Len(processing) < MaxTripEvents
  /\ now' = now + PollInterval
  /\ LET location == [vehicleId |-> "v1", latitude |-> pos[1], longitude |-> pos[2],
                      speed |-> speed, timestamp |-> now']
     IN /\ stream' = Append(stream, location)
        /\ processing' = Append(processing,
                                [source |-> "updateTripData", pc |-> "queried",
                                 location |-> location,
                                 currentTrip |-> CurrentTrip(trips, "v1")])
  /\ UNCHANGED <<serviceVars, alerts, broadcasts, callVars, ruleVars,
                 location_updates, geofences, maintenance_records, pipeline>>

(* Lines 241-272: the update or the insert chosen on the result of the     *)
(* query, whatever the table holds by now.                                 *)
WriteTrip(r, ok) ==
  /\ processing[r].pc = "queried"
  /\ LET run     == processing[r]
         request == TripRequest(run.currentTrip, run.location.speed)
     IN /\ request = "none" => ok
        /\ trips' = IF ~ok \/ request = "none" THEN trips
                    ELSE IF request = "insert" THEN Append(trips, NewTrip(run.location))
                    ELSE [trips EXCEPT ![run.currentTrip] = ExtendedTrip(@, run.location)]
        /\ processing' = [processing EXCEPT ![r].pc = "done"]
        /\ lastCall' = [fn |-> "updateTripData", k |-> r, data |-> run.location,
                        before |-> trips, request |-> request, ok |-> ok]
  /\ UNCHANGED <<lifecycleVars, notifications, updateInterval, notification_preferences,
                 now, alerts, broadcasts, callVars, alertRules, speedLimitCache, fleetVars>>

NextTripRace ==
  \/ \E pos \in TripPositions, speed \in TripSpeeds : QueryCurrentTrip(pos, speed)
  \/ \E r \in 1..Len(processing), ok \in BOOLEAN : WriteTrip(r, ok)

SpecTripRace == InitTrip /\ [][NextTripRace]_vars

----------------------------------------------------------------------------
(* The window of the duplicate check over a series of candidates *)

MaxSubmissions == 3

(* The threshold of the lookup taken from the timestamp of the event. *)
CutoffOfEvent(alertData, t) == ThirtyMinutesAgo(alertData.timestamp)

(* Line 386: the threshold is taken from Date.now() when createAlert       *)
(* runs; alertData.timestamp is not read.                                  *)
Cutoff(alertData, t) == ThirtyMinutesAgo(t)

(* The candidates of vehicles v1 and v2 for one rule. *)
WindowCandidates ==
  {c \in Candidates : c.organizationId = "org1" /\ c.alertType = "speeding"}

(* An event is evaluated when it is recorded, or more than a window later. *)
EventTimestamps(t) == {t, t - DedupWindow - 1}

Candidate(c, timestamp) ==
  [organizationId |-> c.organizationId, vehicleId |-> c.vehicleId,
   alertType |-> c.alertType, severity |-> c.severity, timestamp |-> timestamp]

(* createAlert for one candidate, from the lookup to the return; the call  *)
(* before it has returned.                                                 *)
SubmitCandidate(alertData, ok) ==
  /\ Len(completed) < MaxSubmissions
  /\ LET existingAlert == ExistingAlert(alerts, alertData, Cutoff(alertData, now))
     IN /\ existingAlert => ok
        /\ alerts' = IF existingAlert \/ ~ok THEN alerts
                     ELSE InsertAlert(alerts, alertData, now)
        /\ broadcasts' = Broadcast(broadcasts, alerts, alerts')
        /\ completed' = Append(completed,
              [alertData |-> alertData, checkedAt |-> now, seen |-> Len(alerts),
               outcome |-> IF existingAlert THEN "skipped"
                           ELSE IF ok THEN "inserted" ELSE "failed"])
  /\ UNCHANGED <<serviceVars, processing, now, calls, ruleVars, fleetVars>>

NextWindow ==
  \/ \E c \in WindowCandidates, ok \in BOOLEAN :
        \E timestamp \in EventTimestamps(now) : SubmitCandidate(Candidate(c, timestamp), ok)
  \/ \E d \in ClockSteps : Tick(d)

SpecWindow == Init /\ [][NextWindow]_vars

----------------------------------------------------------------------------
(* subscribe, unsubscribe and notifySubscribers of RealTimeService *)

MaxSubscriptions == 3
MaxNotifications == 2

(* Event types as strings cut into pieces, so that one can be the          *)
(* beginning of another: "alert", "alerts", "alerts_critical",             *)
(* "location_updates".                                                     *)
EventTypes ==
  { <<"alert">>, <<"alert", "s">>, <<"alert", "s", "_", "critical">>,
    <<"location_updates">> }

(* id.startsWith(eventType) *)
StartsWith(id, eventType) ==
  /\ Len(eventType) <= Len(id)
  /\ SubSeq(id, 1, Len(eventType)) = eventType

(* `${eventType}_${Date.now()}_${Math.random()}`: the n-th call draws a    *)
(* random number no earlier call drew.                                     *)
SubscriptionId(eventType, t, n) ==
  eventType \o <<"_", ToString(t), "_", ToString(n)>>

(* Lines 279-283. The callback is known by the number of the call and the  *)
(* event type it was registered with.                                      *)
Subscribe(eventType) ==
  /\ Len(completed) < MaxSubscriptions
  /\ LET n  == Len(completed) + 1
         id == SubscriptionId(eventType, now, n)
     IN /\ subscribers' = Append(subscribers,
                                 [id |-> id, callback |-> [n |-> n, eventType |-> eventType]])
        /\ completed' = Append(completed, id)
  /\ UNCHANGED <<trips, notifications, updateInterval, notification_preferences,
                 wsConnection, sockets, timers, stopped, invocations, processing, now,
                 alerts, broadcasts, calls, ruleVars, fleetVars>>

(* Lines 286-288: this.subscribers.delete(subscriptionId) *)
Unsubscribe(subscriptionId) ==
  /\ \E i \in 1..Len(subscribers) : subscribers[i].id = subscriptionId
  /\ subscribers' = SelectSeq(subscribers, LAMBDA entry : entry.id # subscriptionId)
  /\ UNCHANGED <<trips, notifications, updateInterval, notification_preferences,
                 wsConnection, sockets, timers, stopped, invocations, processing, now,
                 alerts, broadcasts, callVars, ruleVars, fleetVars>>

(* The callbacks notifySubscribers invokes for notification n, in the      *)
(* order of the map.                                                       *)
RECURSIVE Invoked(_, _, _)
Invoked(entries, eventType, n) ==
  IF entries = <<>>
  THEN <<>>
  ELSE (IF StartsWith(Head(entries).id, eventType)
        THEN <<[callback |-> Head(entries).callback, eventType |-> eventType, n |-> n]>>
        ELSE <<>>) \o Invoked(Tail(entries), eventType, n)

(* Lines 291-297, called by the polling tick (line 57) and by the          *)
(* database subscriptions (lines 309, 322).                                *)
NotifySubscribers(eventType) ==
  /\ Len(processing) < MaxNotifications
  /\ invocations' = invocations \o Invoked(subscribers, eventType, Len(processing) + 1)
  /\ processing' = Append(processing, [source |-> "notifySubscribers",
                                       eventType |-> eventType,
                                       subscribers |-> subscribers])
  /\ UNCHANGED <<trips, notifications, updateInterval, notification_preferences,
                 wsConnection, sockets, timers, stopped, subscribers, now,
                 alerts, broadcasts, callVars, ruleVars, fleetVars>>

NextSubscribers ==
  \/ \E eventType \in EventTypes : Subscribe(eventType)
  \/ \E i \in 1..Len(completed) : Unsubscribe(completed[i])
  \/ \E eventType \in EventTypes : NotifySubscribers(eventType)

SpecSubscribers == InitStop /\ [][NextSubscribers]_vars

----------------------------------------------------------------------------
(* Properties of createAlert *)

KeyOf(alertData) ==
  <<alertData.organizationId, alertData.vehicleId, alertData.alertType>>

AlertsOfKey(alertData) ==
  {i \in 1..Len(alerts) : SameKey(alerts[i], alertData)}

(* The first two calls concern the same key, the first one persisted its   *)
(* alert (row 1), and the database accepted what the second one sent.      *)
TwoSequentialCalls ==
  /\ Len(completed) = 2
  /\ KeyOf(completed[1].alertData) = KeyOf(completed[2].alertData)
  /\ completed[1].outcome = "inserted"
  /\ completed[2].outcome # "failed"

(* C1: two createAlert calls of the same (organizationId, vehicleId,       *)
(* alertType), the second started after the first returned: exactly one    *)
(* alert of the key is persisted if the second call's lookup happens       *)
(* within 30 minutes of the creation of the first alert, and two alerts    *)
(* are persisted if it happens after the window has expired.               *)
C1_SequentialDedup ==
  TwoSequentialCalls =>
    IF completed[2].checkedAt - alerts[1].created_at <= DedupWindow
    THEN Cardinality(AlertsOfKey(completed[2].alertData)) = 1
    ELSE Cardinality(AlertsOfKey(completed[2].alertData)) = 2

(* The second call came exactly 30 minutes after the first alert was       *)
(* created and was suppressed.                                             *)
C1_Witness ==
  /\ TwoSequentialCalls
  /\ completed[2].checkedAt - alerts[1].created_at = DedupWindow
  /\ completed[2].outcome = "skipped"
  /\ Cardinality(AlertsOfKey(completed[2].alertData)) = 1

(* The second call came after the window and was persisted as well. *)
C1_WitnessExpired ==
  /\ TwoSequentialCalls
  /\ completed[2].checkedAt - alerts[1].created_at > DedupWindow
  /\ Cardinality(AlertsOfKey(completed[2].alertData)) = 2

(* C2: under any interleaving of concurrent createAlert calls the alerts   *)
(* table never holds two alerts of the same (organizationId, vehicleId,    *)
(* alertType) created less than 30 minutes apart.                          *)
C2_NoDuplicateInWindow ==
  \A i, j \in 1..Len(alerts) :
    (i < j /\ alerts[i].organization_id = alerts[j].organization_id
           /\ alerts[i].vehicle_id = alerts[j].vehicle_id
           /\ alerts[i].alert_type = alerts[j].alert_type)
      => alerts[j].created_at - alerts[i].created_at >= DedupWindow

----------------------------------------------------------------------------
(* Properties of checkSpeedingViolation *)

SpeedingEvaluated == lastCall.fn = "checkSpeedingViolation"

(* The tolerance the rule states: its configured value, 5 mph when the     *)
(* conditions hold none.                                                   *)
ConfiguredTolerance(rule) ==
  IF "tolerance" \in DOMAIN rule.conditions
  THEN rule.conditions.tolerance
  ELSE DefaultTolerance

ToleranceFive ==
  alertRules[1].conditions \in {NoConditions, [tolerance |-> DefaultTolerance]}

(* C3: checkSpeedingViolation submits a speeding candidate iff              *)
(* speed > limit + tolerance, the tolerance being the configured value of  *)
(* the rule and 5 mph when none is configured.                             *)
C3_SpeedingIff ==
  SpeedingEvaluated =>
    (lastCall.submitted # <<>> <=>
       lastCall.data.speed > lastCall.speedLimit + ConfiguredTolerance(alertRules[1]))

(* C4 as stated: high if excess >= 20, medium if 10 <= excess < 20, low    *)
(* otherwise, with excess = speed - limit.                                 *)
C4_SeverityInclusive ==
  (SpeedingEvaluated /\ lastCall.submitted # <<>>) =>
    LET excess == lastCall.data.speed - lastCall.speedLimit
        severity == lastCall.submitted[1].severity
    IN severity = IF excess >= HighExcess THEN "high"
                  ELSE IF excess >= MediumExcess THEN "medium"
                  ELSE "low"

(* C4 amended: the severity of a speeding candidate is high if              *)
(* excess > 20, medium if 10 < excess <= 20 and low otherwise: an excess   *)
(* of exactly 20 is medium and an excess of exactly 10 is low.             *)
C4_SeverityExclusive ==
  (SpeedingEvaluated /\ lastCall.submitted # <<>>) =>
    LET excess == lastCall.data.speed - lastCall.speedLimit
        severity == lastCall.submitted[1].severity
    IN /\ Len(lastCall.submitted) = 1
       /\ lastCall.submitted[1].violation = excess
       /\ severity = IF excess > HighExcess THEN "high"
                     ELSE IF excess > MediumExcess THEN "medium"
                     ELSE "low"

(* A candidate at an excess of exactly 20 mph; its severity is medium. *)
C4_Witness ==
  /\ SpeedingEvaluated
  /\ lastCall.submitted # <<>>
  /\ lastCall.data.speed - lastCall.speedLimit = HighExcess
  /\ lastCall.submitted[1].severity = "medium"

(* C5 as stated: limit 35 and tolerance 5: speed 41 yields no candidate,   *)
(* 41.01 and 42 a candidate of severity low, 56 one of severity high.      *)
C5_ReferenceCases ==
  (SpeedingEvaluated /\ ToleranceFive /\ lastCall.speedLimit = 3500) =>
    /\ lastCall.data.speed = 4100 => lastCall.submitted = <<>>
    /\ lastCall.data.speed \in {4101, 4200} =>
         (lastCall.submitted # <<>> /\ lastCall.submitted[1].severity = "low")
    /\ lastCall.data.speed = 5600 =>
         (lastCall.submitted # <<>> /\ lastCall.submitted[1].severity = "high")

(* C5 amended: limit 35 and tolerance 5: speed 40 yields no candidate,     *)
(* 41, 41.01 and 42 a candidate of severity low, 56 one of severity high.  *)
C5_ReferenceCasesAmended ==
  (SpeedingEvaluated /\ ToleranceFive /\ lastCall.speedLimit = 3500) =>
    /\ lastCall.data.speed = 4000 => lastCall.submitted = <<>>
    /\ lastCall.data.speed \in {4100, 4101, 4200} =>
         (lastCall.submitted # <<>> /\ lastCall.submitted[1].severity = "low")
    /\ lastCall.data.speed = 5600 =>
         (lastCall.submitted # <<>> /\ lastCall.submitted[1].severity = "high")

(* The event at 41 mph in the 35 mph zone, tolerance 5: a low candidate. *)
C5_Witness ==
  /\ SpeedingEvaluated
  /\ ToleranceFive
  /\ lastCall.speedLimit = 3500
  /\ lastCall.data.speed = 4100
  /\ lastCall.submitted # <<>>
  /\ lastCall.submitted[1].severity = "low"

----------------------------------------------------------------------------
(* Properties of the geofence checks *)

GeofenceEvaluated ==
  lastCall.fn \in {"checkGeofences", "checkGeofenceViolation"}

(* The geofences the evaluation of organization org1 goes through. *)
Evaluated(g) == g.organization_id = "org1" /\ g.active

SubmittedFor(g) ==
  {i \in 1..Len(lastCall.submitted) : lastCall.submitted[i].geofenceName = g.name}

(* Membership of the k-th event of the vehicle, computed from the stream. *)
Membership(k, g) ==
  isPointInGeofence(stream[k], g)

MembershipChanged(k, g) ==
  k > 1 /\ Membership(k, g) # Membership(k - 1, g)

(* C6: at event k a transition of a geofence with both flags set is        *)
(* detected exactly when the membership of event k differs from the        *)
(* membership of event k - 1, on either pipeline.                          *)
C6_TransitionAgainstPreceding ==
  GeofenceEvaluated =>
    \A i \in 1..Len(geofences) :
       LET g == geofences[i]
       IN (Evaluated(g) /\ g.alert_on_entry /\ g.alert_on_exit) =>
            ((SubmittedFor(g) # {}) <=> MembershipChanged(lastCall.k, g))

(* The same statement for the pipeline that stores the event first. *)
TransitionAgainstPrecedingWhenStored ==
  pipeline = "tracking" => C6_TransitionAgainstPreceding

(* C7: the evaluation of the first event of a vehicle submits no geofence  *)
(* alert and no geofence alert exists after it.                            *)
C7_NoBaselineNoAlert ==
  (GeofenceEvaluated /\ lastCall.k = 1) =>
     /\ lastCall.submitted = <<>>
     /\ alerts = <<>>

C7_Witness ==
  /\ GeofenceEvaluated
  /\ lastCall.k = 1
  /\ geofences[1].alert_on_entry
  /\ Membership(1, geofences[1])
  /\ location_updates[1].vehicle_id = "v2"
  /\ ~isPointInGeofence(location_updates[1], geofences[1])

(* C8: an entry alert is submitted only for a geofence with alert_on_entry *)
(* and an exit alert only for one with alert_on_exit; an event inside a    *)
(* geofence without alert_on_entry, or outside one without alert_on_exit,  *)
(* submits nothing for that geofence; every geofence alert row was         *)
(* submitted for a geofence with the flag of its type.                     *)
C8_Gating ==
  /\ GeofenceEvaluated =>
       \A i \in 1..Len(geofences) :
          LET g == geofences[i]
          IN /\ \A c \in SubmittedFor(g) :
                   /\ lastCall.submitted[c].alertType = "geofence_entry" => g.alert_on_entry
                   /\ lastCall.submitted[c].alertType = "geofence_exit" => g.alert_on_exit
             /\ (Membership(lastCall.k, g) /\ ~g.alert_on_entry) => SubmittedFor(g) = {}
             /\ (~Membership(lastCall.k, g) /\ ~g.alert_on_exit) => SubmittedFor(g) = {}
  /\ \A a \in 1..Len(alerts) :
       /\ alerts[a].alert_type = "geofence_entry" =>
            \E i \in 1..Len(geofences) : Evaluated(geofences[i]) /\ geofences[i].alert_on_entry
       /\ alerts[a].alert_type = "geofence_exit" =>
            \E i \in 1..Len(geofences) : Evaluated(geofences[i]) /\ geofences[i].alert_on_exit

(* The vehicle came into the depot and the yard at once; the depot does    *)
(* not alert on entry, the yard does.                                      *)
C8_Witness ==
  /\ GeofenceEvaluated
  /\ lastCall.k > 1
  /\ ~geofences[1].alert_on_entry
  /\ geofences[1].alert_on_exit
  /\ MembershipChanged(lastCall.k, geofences[1])
  /\ Membership(lastCall.k, geofences[1])
  /\ SubmittedFor(geofences[1]) = {}
  /\ SubmittedFor(geofences[3]) # {}

----------------------------------------------------------------------------
(* Properties of checkHarshDriving *)

HarshEvaluated == lastCall.fn = "checkHarshDriving"

(* The thresholds as configured: a positive one for accelerating, a        *)
(* negative one for braking, the defaults where the rule names none.       *)
ConfiguredThreshold(name, default) ==
  IF name \in DOMAIN alertRules[1].conditions
  THEN alertRules[1].conditions[name]
  ELSE default

ThresholdsAsDocumented ==
  /\ ConfiguredThreshold("harshAcceleration", DefaultHarshAcceleration) > 0
  /\ ConfiguredThreshold("harshBraking", DefaultHarshBraking) < 0

SubmittedOfType(type) ==
  \E i \in 1..Len(lastCall.submitted) : lastCall.submitted[i].alertType = type

(* Speed and time between event k and the event before it. *)
SpeedDiff(k) == stream[k].speed - stream[k - 1].speed
TimeDiff(k) == stream[k].timestamp - stream[k - 1].timestamp

(* C9: with the most recent prior sample k - 1, harsh_acceleration is      *)
(* submitted iff (speed k - speed k-1) / seconds is above the positive     *)
(* threshold and harsh_braking iff it is below the negative threshold;     *)
(* 40 then 10 mph gives nothing 10 s apart and harsh_braking 2 s apart.    *)
C9_HarshDriving ==
  (HarshEvaluated /\ ThresholdsAsDocumented /\ lastCall.k > 1) =>
     LET k == lastCall.k
     IN /\ SubmittedOfType("harsh_acceleration") <=>
             SpeedDiff(k) > ConfiguredThreshold("harshAcceleration",
                                                DefaultHarshAcceleration) * TimeDiff(k)
        /\ SubmittedOfType("harsh_braking") <=>
             SpeedDiff(k) < ConfiguredThreshold("harshBraking",
                                                DefaultHarshBraking) * TimeDiff(k)
        /\ (/\ alertRules[1].conditions = NoConditions
            /\ stream[k - 1].speed = 4000
            /\ stream[k].speed = 1000) =>
              /\ TimeDiff(k) = 10 => lastCall.submitted = <<>>
              /\ TimeDiff(k) = 2 => SubmittedOfType("harsh_braking")

(* The same statement for the evaluations whose previous row is the        *)
(* sample before the event.                                                *)
HarshDrivingAgainstPrecedingSample ==
  (/\ HarshEvaluated
   /\ lastCall.k > 1
   /\ lastCall.previous # <<>>
   /\ lastCall.previous[1].timestamp = stream[lastCall.k - 1].timestamp)
    => C9_HarshDriving

(* C10: nothing is submitted for the first sample of a vehicle, and for    *)
(* its second sample the acceleration is taken against the first.          *)
C10_SampleRequirement ==
  HarshEvaluated =>
     /\ lastCall.k = 1 => lastCall.submitted = <<>>
     /\ lastCall.k = 2 =>
          /\ lastCall.previous # <<>>
          /\ lastCall.previous[1].timestamp = stream[1].timestamp

(* The part of C10 about a vehicle without a prior sample. *)
NoPriorSampleNoCandidate ==
  (HarshEvaluated /\ lastCall.k = 1) => lastCall.submitted = <<>> /\ alerts = <<>>

----------------------------------------------------------------------------
(* Properties of checkIdleTime *)

IdleEvaluated == lastCall.fn = "checkIdleTime"

(* The events of the vehicle before event k that were moving. *)
MovingBefore(k) == {j \in 1..(k - 1) : stream[j].speed > IdleSpeed}

LastMoving(k) == CHOOSE j \in MovingBefore(k) : \A i \in MovingBefore(k) : i <= j

ExceedsIdleThreshold(k) ==
  /\ MovingBefore(k) # {}
  /\ stream[k].timestamp - stream[LastMoving(k)].timestamp >
       ConfiguredThreshold("idleThreshold", DefaultIdleThreshold) * SecondsPerMinute

SubmittedIdle ==
  \E i \in 1..Len(lastCall.submitted) :
     /\ lastCall.submitted[i].alertType = "excessive_idle"
     /\ lastCall.submitted[i].severity = "low"

(* C11: an event with speed <= 5 and engine status idle submits an         *)
(* excessive_idle candidate of severity low iff the time since the most    *)
(* recent sample of the vehicle with speed > 5 exceeds the configured      *)
(* idleThreshold (15 minutes if none); any other event submits nothing.    *)
C11_IdleRule ==
  IdleEvaluated =>
     LET k == lastCall.k
     IN IF stream[k].speed <= IdleSpeed /\ stream[k].engineStatus = "idle"
        THEN /\ SubmittedIdle <=> ExceedsIdleThreshold(k)
             /\ Len(lastCall.submitted) <= 1
        ELSE lastCall.submitted = <<>>

(* The same statement for the rules whose idleThreshold is absent or not 0. *)
IdleRuleWithNonZeroThreshold ==
  ConfiguredThreshold("idleThreshold", DefaultIdleThreshold) # 0 => C11_IdleRule

----------------------------------------------------------------------------
(* Properties of checkDeviceOffline *)

OfflinePolled == lastCall.fn = "checkDeviceOffline"

(* Seconds, at the poll, since the last sample of the vehicle; since the   *)
(* start for a vehicle that has sent nothing.                              *)
SilentFor ==
  IF lastCall.k = 0 THEN lastCall.at ELSE lastCall.at - stream[lastCall.k].timestamp

OfflineAtPoll ==
  SilentFor > ConfiguredThreshold("offlineThreshold", DefaultOfflineThreshold)
                * SecondsPerMinute

OneOfflineCandidate ==
  /\ Len(lastCall.submitted) = 1
  /\ lastCall.submitted[1].alertType = "device_offline"
  /\ lastCall.submitted[1].severity = "high"

(* C12: every poll at which the vehicle has been silent for more than the  *)
(* offline threshold submits exactly one device_offline candidate of       *)
(* severity high, also for a vehicle that never sent a sample; a poll at   *)
(* which the last sample is not older than the threshold submits none.     *)
C12_DeviceOffline ==
  OfflinePolled =>
     /\ OfflineAtPoll => OneOfflineCandidate
     /\ ~OfflineAtPoll => lastCall.submitted = <<>>

(* The same statement for the polls that fetched a sample of the vehicle,  *)
(* under a rule whose offlineThreshold is absent or not 0.                 *)
DeviceOfflineWhenFetched ==
  (/\ OfflinePolled
   /\ lastCall.vehicleUpdates # <<>>
   /\ ConfiguredThreshold("offlineThreshold", DefaultOfflineThreshold) # 0)
    => C12_DeviceOffline

----------------------------------------------------------------------------
(* Properties of checkFuelTheft *)

FuelEvaluated == lastCall.fn = "checkFuelTheft"

(* The fuel readings of vehicle v1 before event k, as <<time, level>>: the *)
(* rows of the table that carry one and the earlier events that do.        *)
FuelReadingsBefore(k) ==
  {<<location_updates[i].timestamp, location_updates[i].fuel_level>> :
      i \in {j \in 1..Len(location_updates) :
               /\ "fuel_level" \in DOMAIN location_updates[j]
               /\ location_updates[j].vehicle_id = "v1"}}
  \cup
  {<<stream[j].timestamp, stream[j].fuelLevel[1]>> :
      j \in {i \in 1..(k - 1) : stream[i].fuelLevel # Absent}}

(* The level of event k is more than 20 points below a reading taken less  *)
(* than 30 minutes before it.                                              *)
FuelDropped(k) ==
  /\ stream[k].fuelLevel # Absent
  /\ \E r \in FuelReadingsBefore(k) :
        /\ stream[k].timestamp - r[1] < FuelWindow * SecondsPerMinute
        /\ r[2] - stream[k].fuelLevel[1] > FuelDropLimit

SubmittedFuelTheft ==
  /\ Len(lastCall.submitted) = 1
  /\ lastCall.submitted[1].alertType = "fuel_theft"
  /\ lastCall.submitted[1].severity = "critical"

(* C13: for every fuel level of the event, 0 included, and every history  *)
(* of readings, a fuel_theft candidate of severity critical is submitted   *)
(* iff the level dropped by more than 20 points within 30 minutes and the  *)
(* speed of the event is below 5.                                          *)
C13_FuelTheft ==
  FuelEvaluated =>
     IF FuelDropped(lastCall.k) /\ stream[lastCall.k].speed < FuelSpeed
     THEN SubmittedFuelTheft
     ELSE lastCall.submitted = <<>>

(* What does hold: nothing is submitted unless the level dropped and the   *)
(* vehicle stands.                                                         *)
FuelTheftOnlyOnDrop ==
  (FuelEvaluated /\ lastCall.submitted # <<>>) =>
     /\ SubmittedFuelTheft
     /\ FuelDropped(lastCall.k)
     /\ stream[lastCall.k].speed < FuelSpeed

----------------------------------------------------------------------------
(* Properties of checkMaintenanceAlerts *)

MaintenanceEvaluated == lastCall.fn = "checkMaintenanceAlerts"

(* The open records of v1 with a target mileage, by position in the table. *)
OpenRecordsOf ==
  {i \in 1..Len(maintenance_records) :
      /\ maintenance_records[i].vehicle_id = "v1"
      /\ ~maintenance_records[i].completed
      /\ maintenance_records[i].next_service_mileage # Absent}

MilesLeft(i, k) ==
  maintenance_records[i].next_service_mileage[1] - stream[k].odometer[1]

(* Within 500 miles of the target, read as: at most 500 miles are left,    *)
(* the target being passed included.                                       *)
Qualifying(k) ==
  IF stream[k].odometer = Absent
  THEN {}
  ELSE {i \in OpenRecordsOf : MilesLeft(i, k) <= ServiceSoon}

SubmittedForRecord(i) ==
  {c \in 1..Len(lastCall.submitted) :
      /\ lastCall.submitted[c].alertType = "maintenance_due"
      /\ lastCall.submitted[c].maintenanceType = maintenance_records[i].maintenance_type}

MaintenanceAlerts ==
  {a \in 1..Len(alerts) : /\ alerts[a].alert_type = "maintenance_due"
                          /\ alerts[a].vehicle_id = "v1"}

(* The candidates are those of the qualifying records, with the severity   *)
(* of the miles left.                                                      *)
CandidatesOfQualifying(k) ==
  /\ \A i \in OpenRecordsOf :
        /\ i \in Qualifying(k) <=> SubmittedForRecord(i) # {}
        /\ \A c \in SubmittedForRecord(i) :
              lastCall.submitted[c].severity =
                 IF MilesLeft(i, k) <= ServiceNow THEN "high" ELSE "medium"
  /\ Len(lastCall.submitted) = Cardinality(Qualifying(k))

(* C14: for an event with an odometer value, a maintenance_due candidate   *)
(* is submitted for an open record iff the odometer is within 500 miles of *)
(* its target, of severity high within 100 miles and medium otherwise, and *)
(* every qualifying record has its alert once the inserts were accepted.   *)
C14_MaintenanceDue ==
  MaintenanceEvaluated =>
     /\ CandidatesOfQualifying(lastCall.k)
     /\ lastCall.inserted =>
          Cardinality(MaintenanceAlerts) >= Cardinality(Qualifying(lastCall.k))

(* The part about the candidates, for an odometer that is not 0. *)
MaintenanceCandidatesOfNonZeroOdometer ==
  (MaintenanceEvaluated /\ stream[lastCall.k].odometer # Present(0)) =>
     CandidatesOfQualifying(lastCall.k)

(* What createAlert leaves of the candidates: one maintenance_due alert of *)
(* the vehicle per 30 minutes, however many records qualify.               *)
OneMaintenanceAlertPerWindow ==
  (MaintenanceEvaluated /\ now <= DedupWindow) => Cardinality(MaintenanceAlerts) <= 1

----------------------------------------------------------------------------
(* Properties of getSpeedLimit *)

LimitCalled == lastCall.fn = "getSpeedLimit"

LookupFailed == LimitCalled /\ lastCall.lookup.kind = "error"

TrackingLookupFailed ==
  lastCall.fn = "RealTimeService.getSpeedLimit" /\ lastCall.lookup.kind = "error"

(* C16: a call whose lookup fails returns 35 mph, with no entry for the    *)
(* key as well as with an expired one, in both services.                   *)
C16_FallbackOnFailure ==
  (LookupFailed \/ TrackingLookupFailed) => lastCall.returned = DefaultSpeedLimit

(* The lookup failed while an expired entry with another limit was cached. *)
C16_Witness ==
  /\ LookupFailed
  /\ lastCall.cached # <<>>
  /\ lastCall.cached[1].limit # DefaultSpeedLimit
  /\ lastCall.returned = DefaultSpeedLimit

(* The lookup failed without an entry for the key. *)
FallbackOnMiss ==
  /\ LookupFailed
  /\ lastCall.cached = <<>>
  /\ lastCall.returned = DefaultSpeedLimit

(* The age, at the call, of the entry the call found for its key. *)
EntryAge == lastCall.at - lastCall.cached[1].timestamp

LookupIssued == lastCall.lookup.kind # "unused"

(* C17: a call that finds an entry of its 4-decimal key less than an hour  *)
(* old returns its limit and issues no lookup; a call that finds an entry  *)
(* an hour old or older, or none, issues a lookup; a failed lookup leaves  *)
(* the cache as it was, so no entry holds a fallback value.                *)
C17_SpeedLimitCache ==
  LimitCalled =>
     /\ (lastCall.cached # <<>> /\ EntryAge < CacheFreshness) =>
           ~LookupIssued /\ lastCall.returned = lastCall.cached[1].limit
     /\ (lastCall.cached # <<>> /\ EntryAge >= CacheFreshness) => LookupIssued
     /\ lastCall.cached = <<>> => LookupIssued
     /\ LookupFailed =>
           CachedEntry(speedLimitCache, lastCall.key) = lastCall.cached
     /\ (LookupIssued /\ ~LookupFailed) =>
           CachedEntry(speedLimitCache, lastCall.key) =
              <<[limit |-> lastCall.returned, timestamp |-> lastCall.at]>>

(* An entry exactly one hour old was found and looked up again. *)
C17_Witness ==
  /\ LimitCalled
  /\ lastCall.cached # <<>>
  /\ EntryAge = CacheFreshness
  /\ LookupIssued

(* An entry two seconds short of the hour answered the call of another     *)
(* position of the same key.                                               *)
CacheHitBeforeTheHour ==
  /\ LimitCalled
  /\ lastCall.cached # <<>>
  /\ EntryAge = CacheFreshness - 2
  /\ ~LookupIssued
  /\ lastCall.returned # DefaultSpeedLimit

----------------------------------------------------------------------------
(* Properties of processVehicleData *)

RunDone(r) == processing[r].pc = "done"

(* C15: when the loop over the updates of a poll has ended, every rule of  *)
(* the organization was evaluated for every update, whatever evaluations   *)
(* threw; while it runs, every rule before the current one was evaluated   *)
(* for the current update.                                                 *)
C15_RuleIsolation ==
  \A r \in 1..Len(processing) :
     /\ RunDone(r) =>
          \A e \in 1..EventsPerPoll : processing[r].evaluated[e] = Len(alertRules)
     /\ ~RunDone(r) =>
          processing[r].evaluated[processing[r].k] = processing[r].i - 1

(* An evaluation threw and the run went through all rules of all updates. *)
C15_Witness ==
  \E r \in 1..Len(processing) :
     /\ RunDone(r)
     /\ processing[r].threw
     /\ \A e \in 1..EventsPerPoll : processing[r].evaluated[e] = Len(alertRules)

FirstRunDone == Len(processing) >= 1 /\ RunDone(1)

(* C18: the evaluation of the updates of a poll eventually ends, also when *)
(* a call it awaits does not answer.                                       *)
C18_NoStall == <>FirstRunDone

----------------------------------------------------------------------------
(* Properties of the stages of an event *)

(* C19: while a stage of event N + 1 of the vehicle is under way or done,  *)
(* every stage of its event N has completed.                               *)
C19_PerVehicleSerialization ==
  \A r1, r2 \in 1..Len(processing) :
     processing[r1].n < processing[r2].n => Finished(processing[r1])

(* What does hold: the stages of one event run one after the other. *)
StagesOfOneEventInOrder ==
  \A r \in 1..Len(processing) : processing[r].pc \in 1..(Len(StagesOf(processing[r])) + 1)

----------------------------------------------------------------------------
(* Properties of the order of the events *)

(* Event k was recorded before an event that arrived earlier. *)
OlderThanProcessed(k) ==
  \E j \in 1..(k - 1) : stream[j].timestamp > stream[k].timestamp

(* The location history of the vehicle, in the order the rows were written. *)
HistoryInTimestampOrder ==
  \A i, j \in 1..Len(location_updates) :
     (i < j /\ location_updates[i].vehicle_id = location_updates[j].vehicle_id)
        => location_updates[i].timestamp <= location_updates[j].timestamp

(* C20: the events applied to the vehicle's location history have          *)
(* non-decreasing timestamps, and the geofence comparison of an event      *)
(* older than an event processed before it yields no entry or exit alert.  *)
C20_TimestampOrder ==
  /\ HistoryInTimestampOrder
  /\ (GeofenceEvaluated /\ OlderThanProcessed(lastCall.k)) => lastCall.submitted = <<>>

(* What does hold: an event that is not older than any before it is        *)
(* written behind rows of no later timestamp.                              *)
InOrderEventsKeepTheHistoryOrdered ==
  (\A k \in 1..Len(stream) : ~OlderThanProcessed(k)) => HistoryInTimestampOrder

----------------------------------------------------------------------------
(* Properties of updateTripData *)

TripEvaluated == lastCall.fn = "updateTripData"

InProgress(table, vehicleId) ==
  {i \in 1..Len(table) : /\ table[i].vehicle_id = vehicleId
                         /\ table[i].trip_status = "in_progress"}

Written(k) == \E r \in 1..Len(processing) : processing[r].n = k /\ processing[r].written

(* Trip i was opened by event k of the stream. *)
OpenedBy(i, k) ==
  /\ trips[i].vehicle_id = stream[k].vehicleId
  /\ trips[i].start_time = stream[k].timestamp

(* The trips in progress that an event of the stream opened, with the event. *)
OpenedTrips ==
  {<<i, k>> \in (1..Len(trips)) \X (1..Len(stream)) :
      trips[i].trip_status = "in_progress" /\ OpenedBy(i, k)}

SetMax(S) == CHOOSE x \in S : \A y \in S : y <= x

RECURSIVE PathLength(_, _)
(* The sum of the distances between consecutive events from event a to     *)
(* event b, in millimetres.                                                *)
PathLength(a, b) ==
  IF b <= a
  THEN 0
  ELSE PathLength(a, b - 1) +
       calculateDistance(stream[b - 1].latitude, stream[b - 1].longitude,
                         stream[b].latitude, stream[b].longitude)

(* C23: after an extension the distance of the trip is the sum of the      *)
(* distances between the consecutive positions since the trip's start      *)
(* (every write since then having been accepted).                          *)
C23_TripDistance ==
  (TripEvaluated /\ lastCall.request = "update" /\ lastCall.ok) =>
     \A t \in OpenedTrips :
        (\A k \in t[2]..Len(stream) : Written(k)) =>
           trips[t[1]].distance_km = Present(DistanceKm(PathLength(t[2], Len(stream))))

(* What the code records: the distance from the start of the trip to the   *)
(* position of the last event that extended it.                            *)
DistanceFromStart ==
  (TripEvaluated /\ lastCall.request = "update" /\ lastCall.ok) =>
     \A t \in OpenedTrips :
        trips[t[1]].distance_km =
          Present(DistanceKm(calculateDistance(stream[t[2]].latitude, stream[t[2]].longitude,
                                               lastCall.data.latitude,
                                               lastCall.data.longitude)))

(* C30: a call leaves the status of every trip as it is, and while the     *)
(* vehicle has a trip in progress it opens no other trip and extends this  *)
(* one to the event's position, whatever the event's speed.                *)
C30_OnlyStartedOrExtended ==
  /\ Cardinality(InProgress(trips, "v1")) <= 1
  /\ TripEvaluated =>
       LET before == lastCall.before
           active == InProgress(before, lastCall.data.vehicleId)
       IN /\ Len(trips) >= Len(before)
          /\ \A i \in 1..Len(before) : trips[i].trip_status = before[i].trip_status
          /\ active # {} =>
               /\ Len(trips) = Len(before)
               /\ lastCall.ok =>
                    \A i \in active :
                       /\ trips[i].end_location_lat = Present(lastCall.data.latitude)
                       /\ trips[i].end_location_lng = Present(lastCall.data.longitude)

(* An event of speed 0 has extended the trip in progress to another        *)
(* position.                                                               *)
C30_Witness ==
  /\ TripEvaluated
  /\ lastCall.data.speed = 0 /\ lastCall.ok
  /\ \E i \in InProgress(lastCall.before, "v1") :
        /\ lastCall.before[i].start_location_lng # lastCall.data.longitude
        /\ trips[i].end_location_lng = Present(lastCall.data.longitude)

----------------------------------------------------------------------------
(* Properties of handleRealTimeUpdate *)

MessageHandled == lastCall.fn = "handleRealTimeUpdate"

(* The payload has no device id, no latitude, no longitude or no           *)
(* timestamp, under either spelling.                                       *)
Malformed(payload) ==
  \/ payload.device_id = Absent /\ payload.deviceId = Absent
  \/ payload.latitude = Absent /\ payload.lat = Absent
  \/ payload.longitude = Absent /\ payload.lng = Absent
  \/ payload.timestamp = Absent

(* C24: a payload without device id, latitude, longitude or timestamp is   *)
(* neither stored as a location update nor broadcast.                      *)
C24_MalformedPayloadDropped ==
  (MessageHandled /\ Malformed(lastCall.payload)) =>
     /\ location_updates = lastCall.before
     /\ broadcasts = lastCall.sent

(* What does hold: a payload without device id or without a coordinate is  *)
(* not stored.                                                             *)
NoRowWithoutDeviceOrPosition ==
  (MessageHandled /\ Malformed(lastCall.payload) /\ lastCall.payload.timestamp # Absent)
     => location_updates = lastCall.before

----------------------------------------------------------------------------
(* Properties of sendNotifications and of the order of createAlert *)

(* sendNotifications has returned for the alert of position id. *)
Notified(id) ==
  \/ \E p \in Callers : calls[p].pc = "broadcast" /\ calls[p].alert = id
  \/ \E c \in 1..Len(completed) :
        completed[c].outcome = "inserted" /\ completed[c].alert = id

(* The preferences and channels sendNotifications has to try for the alert. *)
EnabledChannels(id) ==
  {<<i, ch>> \in (1..Len(notification_preferences)) \X {"email", "sms", "webhook"} :
      LET pref == notification_preferences[i]
      IN /\ Matches(pref, alerts[id])
         /\ \/ ch = "email" /\ pref.email_enabled
            \/ ch = "sms" /\ pref.sms_enabled
            \/ ch = "webhook" /\ pref.webhook_enabled}

Attempted(id, i, ch) ==
  \E n \in 1..Len(notifications) :
     /\ notifications[n].alert = id
     /\ notifications[n].preference = i
     /\ notifications[n].channel = ch

(* C25: once sendNotifications has returned for an alert, every enabled    *)
(* channel of every matching preference has been attempted, whichever      *)
(* sends failed.                                                           *)
C25_ChannelIsolation ==
  \A id \in 1..Len(alerts) :
     Notified(id) => \A c \in EnabledChannels(id) : Attempted(id, c[1], c[2])

(* The webhook of one preference was rejected and the channels of a later  *)
(* preference were attempted for the same alert.                           *)
C25_Witness ==
  \E n, m \in 1..Len(notifications) :
     /\ n < m
     /\ notifications[n].alert = notifications[m].alert
     /\ notifications[n].outcome = "rejects"
     /\ notifications[n].preference < notifications[m].preference
     /\ Notified(notifications[n].alert)

(* C29: every notification and every broadcast is of a persisted alert,    *)
(* the notifications of an alert are attempted after its insert and        *)
(* before its broadcast, and the calls that were suppressed or whose       *)
(* insert failed have sent nothing.                                        *)
C29_PersistBeforeDispatch ==
  /\ \A n \in 1..Len(notifications) : notifications[n].alert \in 1..Len(alerts)
  /\ \A b \in broadcasts :
        /\ b.id \in 1..Len(alerts)
        /\ \A c \in EnabledChannels(b.id) : Attempted(b.id, c[1], c[2])
  /\ \A p \in Callers :
        calls[p].pc \in {"check", "insert", "notify"} =>
           /\ calls[p].pc = "notify" => [id |-> calls[p].alert] \notin broadcasts
           /\ \A n \in 1..Len(notifications) :
                 notifications[n].alert \in
                    {completed[c].alert :
                       c \in {x \in 1..Len(completed) : completed[x].outcome = "inserted"}}
  /\ Cardinality(broadcasts) <=
        Cardinality({c \in 1..Len(completed) : completed[c].outcome = "inserted"})

(* One call persisted, notified and broadcast its alert; the next one was  *)
(* suppressed or failed at its insert.                                     *)
C29_Witness ==
  /\ Len(completed) = 2
  /\ completed[1].outcome = "inserted"
  /\ completed[2].outcome \in {"skipped", "failed"}
  /\ notifications # <<>>
  /\ Cardinality(broadcasts) = 1

----------------------------------------------------------------------------
(* Properties of a reload during an evaluation *)

(* C26: the evaluation of one event works on one set of rules and sees     *)
(* one set of geofences.                                                   *)
C26_OneSnapshotPerEvent ==
  \A r \in 1..Len(processing) :
     LET run == processing[r]
     IN /\ \A j \in 1..Len(run.evaluated) : run.evaluated[j] = run.rules[j].id
        /\ \A a, b \in 1..Len(run.geofencesSeen) :
              run.geofencesSeen[a] = run.geofencesSeen[b]

(* What does hold: the rules evaluated for an event are the rules of the   *)
(* array taken before the loop, whatever was loaded since.                 *)
OneRuleSetPerEvent ==
  \A r \in 1..Len(processing) :
     \A j \in 1..Len(processing[r].evaluated) :
        processing[r].evaluated[j] = processing[r].rules[j].id

----------------------------------------------------------------------------
(* Properties of stopTracking *)

(* C27: no external call is issued after stopTracking. *)
C27_NoCallAfterStop ==
  \A r \in 1..Len(processing) :
     \A c \in 1..Len(processing[r].issued) : ~processing[r].issued[c].stopped

(* What does hold: no callback starts after stopTracking, so no fetch is   *)
(* issued after it.                                                        *)
NoTickAfterStop ==
  \A r \in 1..Len(processing) : ~processing[r].issued[1].stopped

----------------------------------------------------------------------------
(* Properties of the alerts of the RealTimeService tick *)

TickProcessed == lastCall.fn = "processLocationForAlerts"

(* The alerts of the key of candidate c created in the 30 minutes up to t. *)
RecentOfKey(table, c, t) ==
  {i \in 1..Len(table) : SameKey(table[i], c) /\ table[i].created_at >= ThirtyMinutesAgo(t)}

(* C28: a candidate of checkSpeeding or checkGeofences whose key has an    *)
(* alert of the last 30 minutes is not persisted again: each key has one   *)
(* alert in the window.                                                    *)
C28_DedupOnTrackingPath ==
  TickProcessed =>
     \A c \in 1..Len(lastCall.submitted) :
        Cardinality(RecentOfKey(alerts, lastCall.submitted[c], now)) = 1

(* What does hold: every candidate of the tick is persisted, duplicate or  *)
(* not.                                                                    *)
EveryTrackingCandidatePersisted ==
  TickProcessed => Len(alerts) = Len(lastCall.before) + Len(lastCall.submitted)


----------------------------------------------------------------------------
(* Properties of the configured thresholds *)

ZeroTolerance ==
  /\ "tolerance" \in DOMAIN alertRules[1].conditions
  /\ alertRules[1].conditions.tolerance = 0

(* C31: a configured threshold is honoured for every configured value,     *)
(* 0 included: a speeding rule whose conditions set tolerance = 0 submits  *)
(* a candidate for every speed above the limit; the default of 5 mph       *)
(* applies only when the condition is absent.                              *)
C31_ZeroThresholdHonoured ==
  (SpeedingEvaluated /\ ZeroTolerance) =>
    (lastCall.submitted # <<>> <=> lastCall.data.speed > lastCall.speedLimit)

(* What the code does with a tolerance of 0: it takes the default.         *)
ZeroToleranceTakesTheDefault ==
  (SpeedingEvaluated /\ ZeroTolerance) =>
    (lastCall.submitted # <<>> <=>
       lastCall.data.speed > lastCall.speedLimit + DefaultTolerance)

----------------------------------------------------------------------------
(* Properties of checkHarshDriving for a time difference of 0 *)

ZeroTimeDifference ==
  /\ HarshEvaluated
  /\ lastCall.previous # <<>>
  /\ lastCall.previous[1].timestamp = lastCall.data.timestamp

(* C32: when the event and the prior sample checkHarshDriving uses have    *)
(* the same timestamp, neither harsh_acceleration nor harsh_braking is     *)
(* submitted, whatever the two speeds are.                                 *)
C32_ZeroTimeDifference ==
  ZeroTimeDifference => lastCall.submitted = <<>>

(* With a time difference of 0 a candidate is submitted exactly when the   *)
(* two speeds differ: the quotient is then infinite.                       *)
ZeroTimeDifferenceSubmitsOnAnySpeedChange ==
  ZeroTimeDifference =>
    /\ SubmittedOfType("harsh_acceleration") <=>
         lastCall.data.speed > lastCall.previous[1].speed
    /\ SubmittedOfType("harsh_braking") <=>
         lastCall.data.speed < lastCall.previous[1].speed

----------------------------------------------------------------------------
(* Properties of the geofence alerts of two geofences *)

EntryAlerts == {i \in 1..Len(alerts) : alerts[i].alert_type = "geofence_entry"}

EntryCandidates ==
  {i \in 1..Len(lastCall.submitted) : lastCall.submitted[i].alertType = "geofence_entry"}

(* An entry alert of the vehicle persisted by an earlier event, within the *)
(* last 30 minutes.                                                        *)
EarlierEntryInWindow(i) ==
  /\ i \in EntryAlerts
  /\ alerts[i].created_at < now
  /\ alerts[i].created_at >= ThirtyMinutesAgo(now)

(* C33: geofence alerts are deduplicated per (organization, vehicle, alert *)
(* type) and not per geofence: of the entries of one vehicle into two      *)
(* geofences within 30 minutes at most one geofence_entry alert is         *)
(* persisted, the one of the first entry.                                  *)
C33_DedupAcrossGeofences ==
  /\ \A i, j \in EntryAlerts :
        i < j => alerts[j].created_at - alerts[i].created_at > DedupWindow
  /\ (GeofenceEvaluated /\ EntryCandidates # {}) =>
        /\ (\E i \in EntryAlerts : EarlierEntryInWindow(i)) =>
              \A j \in EntryAlerts : alerts[j].created_at < now
        /\ \A j \in EntryAlerts :
              alerts[j].created_at = now =>
                 alerts[j].metadata =
                   <<lastCall.submitted[CHOOSE c \in EntryCandidates :
                        \A e \in EntryCandidates : c <= e].geofenceName>>

(* The vehicle enters a second geofence within 30 minutes of the persisted *)
(* entry into another one, and the table holds that one entry alert.       *)
C33_Witness ==
  /\ GeofenceEvaluated
  /\ Cardinality(EntryAlerts) = 1
  /\ \E i \in EntryAlerts, c \in EntryCandidates :
        /\ EarlierEntryInWindow(i)
        /\ alerts[i].metadata # <<lastCall.submitted[c].geofenceName>>

----------------------------------------------------------------------------
(* Properties of the organization of an alert *)

VehicleDataProcessed == lastCall.fn = "processVehicleData"

(* The rows processVehicleData added to the table. *)
PersistedByCall == (Len(lastCall.before) + 1) .. Len(alerts)

(* C34: every alert persisted as the result of                             *)
(* processVehicleData(data, organizationId) carries that organizationId as *)
(* its organization_id, and the lookup for duplicates is made with the     *)
(* same organization id.                                                   *)
C34_AlertOwnership ==
  VehicleDataProcessed =>
    /\ \A i \in PersistedByCall : alerts[i].organization_id = lastCall.organizationId
    /\ \A c \in 1..Len(lastCall.submitted) :
          lastCall.submitted[c].organizationId = lastCall.organizationId

(* The rules evaluated for an organization are rules of that organization, *)
(* and a rule row that has the property organizationId passes it on.       *)
RulesOfTheOrganizationOnly ==
  /\ \A o \in DOMAIN alertRules :
        \A i \in 1..Len(alertRules[o]) : alertRules[o][i].organization_id = o
  /\ VehicleDataProcessed =>
        \A c \in 1..Len(lastCall.submitted) :
           lastCall.submitted[c].organizationId \in {lastCall.organizationId, Undefined}

----------------------------------------------------------------------------
(* Properties of the connection of RealGPSService *)

(* The sockets that are open or being opened. *)
LiveSockets == {s \in 1..Len(sockets) : sockets[s].readyState \in {"connecting", "open"}}

(* C35: a RealGPSService has at most one WebSocket connection that is open *)
(* or being opened, after any sequence of error and close events and the   *)
(* reconnect timers they start.                                            *)
C35_SingleConnection == Cardinality(LiveSockets) <= 1

(* The socket held in wsConnection is the one created last. *)
HeldSocketIsTheNewest == wsConnection # Absent => wsConnection = Present(Len(sockets))

(* C36: after disconnect() no new WebSocket connection is opened by the    *)
(* instance and no further real-time update is stored or broadcast by it.  *)
C36_DisconnectIsFinal ==
  [][stopped => /\ Len(sockets') = Len(sockets)
                /\ location_updates' = location_updates
                /\ broadcasts' = broadcasts]_vars

(* disconnect lets go of the socket it held, and that socket is not open   *)
(* afterwards.                                                             *)
DisconnectClosesTheHeldSocket ==
  [][(~stopped /\ stopped') =>
       /\ wsConnection' = Absent
       /\ wsConnection # Absent =>
            sockets'[wsConnection[1]].readyState \notin {"connecting", "open"}]_vars

----------------------------------------------------------------------------
(* Properties of the polling timer *)

PollingTicks == {r \in 1..Len(processing) : processing[r].source = "intervalCallback"}

(* C37: a RealTimeService has at most one active polling timer at any      *)
(* time, and once stopTracking has returned no polling tick starts again,  *)
(* for every interleaving of startTracking and stopTracking.               *)
C37_TimerLifecycle ==
  [][/\ Len(timers') <= 1
     /\ stopped => PollingTicks' = PollingTicks]_vars

(* The timer this.updateInterval holds is active. *)
HeldTimerIsActive ==
  updateInterval # NULL => \E i \in 1..Len(timers) : timers[i] = updateInterval

(* stopTracking clears the timer it finds in this.updateInterval. *)
StopClearsTheHeldTimer ==
  [][(~stopped /\ stopped') =>
       /\ updateInterval' = NULL
       /\ \A i \in 1..Len(timers') : timers'[i] # updateInterval]_vars

----------------------------------------------------------------------------
(* Properties of updateTripData under overlapping ticks *)

(* C38: each vehicle has at most one trip with status in_progress, under   *)
(* every interleaving of updateTripData calls for that vehicle.            *)
C38_SingleActiveTrip ==
  \A v \in {"v1", "v2"} : Cardinality(InProgress(trips, v)) <= 1

(* Two trips in progress need two calls that both found none. *)
SingleActiveTripUnlessTwoFoundNone ==
  Cardinality({r \in 1..Len(processing) : processing[r].currentTrip = 0}) <= 1
    => C38_SingleActiveTrip

----------------------------------------------------------------------------
(* Properties of the window over a series of candidates *)

(* The alerts of the key of submission k that were persisted before it. *)
PersistedBefore(k) ==
  {i \in 1..completed[k].seen : SameKey(alerts[i], completed[k].alertData)}

(* Seconds, at submission k, since the last persisted alert of its key. *)
SinceLastPersisted(k) ==
  completed[k].checkedAt
    - alerts[CHOOSE i \in PersistedBefore(k) : \A j \in PersistedBefore(k) : j <= i].created_at

(* C39: the window is anchored at the creation time of the persisted alert *)
(* and is not extended by suppressed candidates: a candidate submitted     *)
(* more than 30 minutes after the last persisted alert of its key is       *)
(* accepted, whatever was suppressed in between, and one submitted within  *)
(* 30 minutes is suppressed; the time is the wall clock at submission, not *)
(* the timestamp of the event.                                             *)
C39_WindowAnchoredAtPersisted ==
  \A k \in 1..Len(completed) :
     IF PersistedBefore(k) = {} \/ SinceLastPersisted(k) > DedupWindow
     THEN completed[k].outcome \in {"inserted", "failed"}
     ELSE completed[k].outcome = "skipped"

(* An alert persisted, a candidate of the key suppressed within the        *)
(* window, and a third accepted more than 30 minutes after the alert but   *)
(* less than 30 minutes after the suppressed one, for an event recorded    *)
(* within the window.                                                      *)
C39_Witness ==
  /\ Len(completed) = 3
  /\ \A k \in 1..3 : KeyOf(completed[k].alertData) = KeyOf(completed[1].alertData)
  /\ completed[1].outcome = "inserted"
  /\ completed[2].outcome = "skipped"
  /\ completed[3].outcome = "inserted"
  /\ completed[3].checkedAt - completed[2].checkedAt < DedupWindow
  /\ completed[3].alertData.timestamp - alerts[1].created_at <= DedupWindow

----------------------------------------------------------------------------
(* Properties of the delivery to subscribers *)

(* The invocations of callback cb for notification n. *)
InvocationsOf(cb, n) ==
  {i \in 1..Len(invocations) : invocations[i].callback = cb /\ invocations[i].n = n}

(* The callbacks subscribed when notification n was made. *)
SubscribedAt(n) ==
  {processing[n].subscribers[i].callback : i \in 1..Len(processing[n].subscribers)}

(* C40: a callback registered with subscribe(eventType, cb) is invoked     *)
(* only for notifications of exactly that event type, once per such        *)
(* notification while subscribed, and never after unsubscribe(id).         *)
C40_SubscriberDelivery ==
  /\ \A i \in 1..Len(invocations) :
        /\ invocations[i].callback.eventType = invocations[i].eventType
        /\ invocations[i].callback \in SubscribedAt(invocations[i].n)
  /\ \A n \in 1..Len(processing) :
        \A cb \in SubscribedAt(n) :
           cb.eventType = processing[n].eventType => Cardinality(InvocationsOf(cb, n)) = 1

(* What the code delivers: to the callbacks subscribed at the time whose   *)
(* event type begins with the type of the notification, once each.         *)
DeliveryToTypesThatBeginWithTheEvent ==
  /\ \A i \in 1..Len(invocations) :
        /\ StartsWith(invocations[i].callback.eventType, invocations[i].eventType)
        /\ invocations[i].callback \in SubscribedAt(invocations[i].n)
  /\ \A n \in 1..Len(processing) :
        \A cb \in SubscribedAt(n) :
           Cardinality(InvocationsOf(cb, n)) =
             IF StartsWith(cb.eventType \o <<"_">>, processing[n].eventType) THEN 1 ELSE 0

====
